---- MODULE Spec2Model ----
(***************************************************************************)
(* Model of the ICS-04 ChanCloseConfirm handler (validate / execute) of    *)
(* ibc-rs against an in-memory host context, and of                        *)
(* calculate_block_delay.                                                  *)
(***************************************************************************)
EXTENDS Integers, Sequences, FiniteSets, TLC

VARIABLES channels, connections, clients, consensus, events, log,
          host_time, host_height, last,
          pc, delay_period_time, max_time_per_block, block_delay,
          input, output

hostVars == <<channels, connections, clients, consensus, events, log,
              host_time, host_height>>
delayVars == <<pc, delay_period_time, max_time_per_block, block_delay>>
convVars == <<input, output>>
vars == <<channels, connections, clients, consensus, events, log,
          host_time, host_height, last,
          pc, delay_period_time, max_time_per_block, block_delay,
          input, output>>

(***************************************************************************)
(* Bounds of the model.                                                    *)
(***************************************************************************)
MaxEvents == 4
MaxLog == 2
MaxHostFail == 2
LatestHeight == 2
ConsensusHeight == 1
ConsensusTimestamp == 100

(***************************************************************************)
(* Identifiers, states and the values the host stores.                     *)
(***************************************************************************)
None == "None"

PortIdB == "transfer"
ChanIdsB == {"channel-0", "channel-1"}
ConnIdB == "connection-0"
ConnIdA == "connection-9"
ClientIdB == "07-tendermint-0"
PrefixA == "ibc"
VersionB == "ics20-1"

\* channel on A that is the counterparty of a channel on B
ChanIdOnA(chan_id_on_b) ==
    IF chan_id_on_b = "channel-0" THEN "channel-7" ELSE "channel-8"

OrderOf(chan_id_on_b) ==
    IF chan_id_on_b = "channel-0" THEN "Unordered" ELSE "Ordered"

Statuses == {"Active", "Frozen", "Expired"}

\* position of a channel state in Uninitialized -> Init -> TryOpen -> Open -> Closed
StateRank(s) ==
    CASE s = "Uninitialized" -> 0
      [] s = "Init" -> 1
      [] s = "TryOpen" -> 2
      [] s = "Open" -> 3
      [] s = "Closed" -> 4

ChannelEnd(state, ordering, cp_port, cp_chan, hops, version) ==
    [state |-> state, ordering |-> ordering,
     version |-> version,
     counterparty |-> [port_id |-> cp_port, channel_id |-> cp_chan], connection_hops |-> hops]

Duration(secs, nanos) == [secs |-> secs, nanos |-> nanos]
ZERO_DURATION == Duration(0, 0)

ConnectionEnd(state, client_id, cp_conn, delay) ==
    [state |-> state, counterparty |-> [connection_id |-> cp_conn, prefix |-> PrefixA],
     client_id |-> client_id,
     delay_period |-> delay]

Ok == [kind |-> "Ok", detail |-> ""]
Err(kind, detail) == [kind |-> kind, detail |-> detail]

(***************************************************************************)
(* The host context (ValidationContext / ExecutionContext): an in-memory   *)
(* key-value store, an event list and a log.                               *)
(***************************************************************************)
Ctx == [channels |-> channels, connections |-> connections,
        clients |-> clients, consensus |-> consensus,
        events |-> events, log |-> log,
        host_time |-> host_time, host_height |-> host_height]

ChannelEndPath(port_id, chan_id) == <<port_id, chan_id>>
ClientConsensusStatePath(client_id, height) == <<client_id, height>>
Path_ChannelEnd(chan_end_path) ==
    <<"channelEnds", "ports", chan_end_path[1], "channels", chan_end_path[2]>>

validate_message_signer(signer) == signer # ""

\* reads: a missing entry is an error of the host
has_channel_end(ctx, path) == path \in DOMAIN ctx.channels
channel_end(ctx, path) == ctx.channels[path]
has_connection_end(ctx, conn_id) == conn_id \in DOMAIN ctx.connections
connection_end(ctx, conn_id) == ctx.connections[conn_id]
has_client_state(ctx, client_id) == client_id \in DOMAIN ctx.clients
client_state(ctx, client_id) == ctx.clients[client_id]
has_consensus_state(ctx, path) == path \in DOMAIN ctx.consensus
consensus_state(ctx, path) == ctx.consensus[path]

\* writes
store_channel(ctx, path, chan_end) ==
    [ctx EXCEPT !.channels =
        [k \in DOMAIN ctx.channels \cup {path} |->
            IF k = path THEN chan_end ELSE ctx.channels[k]]]
log_message(ctx, message) == [ctx EXCEPT !.log = Append(ctx.log, message)]
emit_ibc_event(ctx, event) == [ctx EXCEPT !.events = Append(ctx.events, event)]

\* ChannelEnd / ConnectionEnd / ClientState methods
verify_not_closed(chan_end) == chan_end.state # "Closed"
verify_state_matches(conn_end, expected) == conn_end.state = expected
is_active(status) == status = "Active"
validate_proof_height(client, proof_height) == proof_height <= client.latest_height
set_state(chan_end, s) == [chan_end EXCEPT !.state = s]

\* a commitment proof attests that `value` is stored at `path` under
\* `prefix` in the state whose commitment root is `root`
CommitmentProof(root, prefix, path, value) ==
    [prefix |-> prefix, path |-> path, root |-> root, value |-> value]
verify_membership(prefix, proof, root, path, value) ==
    /\ proof.root = root
    /\ proof.prefix = prefix
    /\ proof.path = path
    /\ proof.value = value

(***************************************************************************)
(* validate (chan_close_confirm.rs:96-165).  The result carries the error  *)
(* and whether verify_membership was reached.                              *)
(***************************************************************************)
Verdict(res, verified) == [res |-> res, verified |-> verified]

\* variant of expected_chan_end_on_a: the expected end of A is the
\* counterparty view of B's end in whatever state the proof carries
expected_chan_end_on_a_AnyState(msg, chan_end_on_b, conn_id_on_a) ==
    ChannelEnd(msg.proof_chan_end_on_a.value.state, chan_end_on_b.ordering,
               msg.port_id_on_b, msg.chan_id_on_b,
               <<conn_id_on_a>>, chan_end_on_b.version)

expected_chan_end_on_a(msg, chan_end_on_b, conn_id_on_a) ==
    ChannelEnd("Closed", chan_end_on_b.ordering,
               msg.port_id_on_b, msg.chan_id_on_b,
               <<conn_id_on_a>>, chan_end_on_b.version)

\* variant of verify_proofs: the client status is not consulted
verify_proofs_NoStatus(ctx, msg, chan_end_on_b, conn_end_on_b) ==
    LET client_id_on_b == conn_end_on_b.client_id IN
    IF ~has_client_state(ctx, client_id_on_b)
    THEN Verdict(Err("ClientStateNotFound", client_id_on_b), FALSE)
    ELSE
    LET client_state_of_a_on_b == client_state(ctx, client_id_on_b)
        client_cons_state_path_on_b ==
            ClientConsensusStatePath(client_id_on_b, msg.proof_height_on_a)
    IN
    IF ~validate_proof_height(client_state_of_a_on_b, msg.proof_height_on_a)
    THEN Verdict(Err("InvalidProofHeight", ""), FALSE)
    ELSE IF ~has_consensus_state(ctx, client_cons_state_path_on_b)
    THEN Verdict(Err("ConsensusStateNotFound", ""), FALSE)
    ELSE
    LET consensus_state_of_a_on_b == consensus_state(ctx, client_cons_state_path_on_b)
        chan_id_on_a == chan_end_on_b.counterparty.channel_id
        conn_id_on_a == conn_end_on_b.counterparty.connection_id
    IN
    IF chan_id_on_a = None
    THEN Verdict(Err("MissingCounterparty", ""), FALSE)
    ELSE IF conn_id_on_a = None
    THEN Verdict(Err("UndefinedConnectionCounterparty",
                     chan_end_on_b.connection_hops[1]), FALSE)
    ELSE IF ~verify_membership(conn_end_on_b.counterparty.prefix,
                               msg.proof_chan_end_on_a,
                               consensus_state_of_a_on_b.root,
                               Path_ChannelEnd(ChannelEndPath(
                                   chan_end_on_b.counterparty.port_id, chan_id_on_a)),
                               expected_chan_end_on_a(msg, chan_end_on_b, conn_id_on_a))
    THEN Verdict(Err("VerifyChannelFailed", ""), TRUE)
    ELSE Verdict(Ok, TRUE)

verify_proofs(ctx, msg, chan_end_on_b, conn_end_on_b) ==
    LET client_id_on_b == conn_end_on_b.client_id IN
    IF ~has_client_state(ctx, client_id_on_b)
    THEN Verdict(Err("ClientStateNotFound", client_id_on_b), FALSE)
    ELSE
    LET client_state_of_a_on_b == client_state(ctx, client_id_on_b)
        status == client_state_of_a_on_b.status
        client_cons_state_path_on_b ==
            ClientConsensusStatePath(client_id_on_b, msg.proof_height_on_a)
    IN
    IF ~is_active(status)
    THEN Verdict(Err("ClientNotActive", status), FALSE)
    ELSE IF ~validate_proof_height(client_state_of_a_on_b, msg.proof_height_on_a)
    THEN Verdict(Err("InvalidProofHeight", ""), FALSE)
    ELSE IF ~has_consensus_state(ctx, client_cons_state_path_on_b)
    THEN Verdict(Err("ConsensusStateNotFound", ""), FALSE)
    ELSE
    LET consensus_state_of_a_on_b == consensus_state(ctx, client_cons_state_path_on_b)
        prefix_on_a == conn_end_on_b.counterparty.prefix
        port_id_on_a == chan_end_on_b.counterparty.port_id
        chan_id_on_a == chan_end_on_b.counterparty.channel_id
        conn_id_on_a == conn_end_on_b.counterparty.connection_id
        chan_end_path_on_a == ChannelEndPath(port_id_on_a, chan_id_on_a)
    IN
    IF chan_id_on_a = None
    THEN Verdict(Err("MissingCounterparty", ""), FALSE)
    ELSE IF conn_id_on_a = None
    THEN Verdict(Err("UndefinedConnectionCounterparty",
                     chan_end_on_b.connection_hops[1]), FALSE)
    ELSE IF ~verify_membership(prefix_on_a, msg.proof_chan_end_on_a,
                               consensus_state_of_a_on_b.root,
                               Path_ChannelEnd(chan_end_path_on_a),
                               expected_chan_end_on_a(msg, chan_end_on_b, conn_id_on_a))
    THEN Verdict(Err("VerifyChannelFailed", ""), TRUE)
    ELSE Verdict(Ok, TRUE)

\* variant of validate: the local channel end must be Open
validate_OpenOnly(ctx, msg) ==
    LET chan_end_path_on_b == ChannelEndPath(msg.port_id_on_b, msg.chan_id_on_b) IN
    IF ~validate_message_signer(msg.signer)
    THEN Verdict(Err("InvalidSigner", ""), FALSE)
    ELSE IF ~has_channel_end(ctx, chan_end_path_on_b)
    THEN Verdict(Err("ChannelNotFound", ""), FALSE)
    ELSE
    LET chan_end_on_b == channel_end(ctx, chan_end_path_on_b) IN
    IF chan_end_on_b.state # "Open"
    THEN Verdict(Err("InvalidState", chan_end_on_b.state), FALSE)
    ELSE IF ~has_connection_end(ctx, chan_end_on_b.connection_hops[1])
    THEN Verdict(Err("ConnectionNotFound", ""), FALSE)
    ELSE
    LET conn_end_on_b == connection_end(ctx, chan_end_on_b.connection_hops[1]) IN
    IF ~verify_state_matches(conn_end_on_b, "Open")
    THEN Verdict(Err("ConnectionInvalidState", conn_end_on_b.state), FALSE)
    ELSE verify_proofs(ctx, msg, chan_end_on_b, conn_end_on_b)

\* variant of validate: the connection's delay period must have elapsed
\* since the consensus state at the proof height
validate_WithDelay(ctx, msg) ==
    LET chan_end_path_on_b == ChannelEndPath(msg.port_id_on_b, msg.chan_id_on_b) IN
    IF ~validate_message_signer(msg.signer)
    THEN Verdict(Err("InvalidSigner", ""), FALSE)
    ELSE IF ~has_channel_end(ctx, chan_end_path_on_b)
    THEN Verdict(Err("ChannelNotFound", ""), FALSE)
    ELSE
    LET chan_end_on_b == channel_end(ctx, chan_end_path_on_b) IN
    IF ~verify_not_closed(chan_end_on_b)
    THEN Verdict(Err("InvalidState", chan_end_on_b.state), FALSE)
    ELSE IF ~has_connection_end(ctx, chan_end_on_b.connection_hops[1])
    THEN Verdict(Err("ConnectionNotFound", ""), FALSE)
    ELSE
    LET conn_end_on_b == connection_end(ctx, chan_end_on_b.connection_hops[1])
        cons_path == ClientConsensusStatePath(conn_end_on_b.client_id,
                                              msg.proof_height_on_a)
    IN
    IF ~verify_state_matches(conn_end_on_b, "Open")
    THEN Verdict(Err("ConnectionInvalidState", conn_end_on_b.state), FALSE)
    ELSE IF /\ has_consensus_state(ctx, cons_path)
            /\ ctx.host_time - consensus_state(ctx, cons_path).timestamp
                   < conn_end_on_b.delay_period.secs
    THEN Verdict(Err("NotEnoughTimeElapsed", ""), FALSE)
    ELSE verify_proofs(ctx, msg, chan_end_on_b, conn_end_on_b)

\* variant of validate: the connection end is read and its state is not
\* compared with Open
validate_AnyConnState(ctx, msg) ==
    LET chan_end_path_on_b == ChannelEndPath(msg.port_id_on_b, msg.chan_id_on_b) IN
    IF ~validate_message_signer(msg.signer)
    THEN Verdict(Err("InvalidSigner", ""), FALSE)
    ELSE IF ~has_channel_end(ctx, chan_end_path_on_b)
    THEN Verdict(Err("ChannelNotFound", ""), FALSE)
    ELSE
    LET chan_end_on_b == channel_end(ctx, chan_end_path_on_b) IN
    IF ~verify_not_closed(chan_end_on_b)
    THEN Verdict(Err("InvalidState", chan_end_on_b.state), FALSE)
    ELSE IF ~has_connection_end(ctx, chan_end_on_b.connection_hops[1])
    THEN Verdict(Err("ConnectionNotFound", ""), FALSE)
    ELSE verify_proofs(ctx, msg, chan_end_on_b,
                       connection_end(ctx, chan_end_on_b.connection_hops[1]))

validate(ctx, msg) ==
    LET chan_end_path_on_b == ChannelEndPath(msg.port_id_on_b, msg.chan_id_on_b) IN
    IF ~validate_message_signer(msg.signer)
    THEN Verdict(Err("InvalidSigner", ""), FALSE)
    ELSE IF ~has_channel_end(ctx, chan_end_path_on_b)
    THEN Verdict(Err("ChannelNotFound", ""), FALSE)
    ELSE
    LET chan_end_on_b == channel_end(ctx, chan_end_path_on_b) IN
    IF ~verify_not_closed(chan_end_on_b)
    THEN Verdict(Err("InvalidState", chan_end_on_b.state), FALSE)
    ELSE IF ~has_connection_end(ctx, chan_end_on_b.connection_hops[1])
    THEN Verdict(Err("ConnectionNotFound", ""), FALSE)
    ELSE
    LET conn_end_on_b == connection_end(ctx, chan_end_on_b.connection_hops[1]) IN
    IF ~verify_state_matches(conn_end_on_b, "Open")
    THEN Verdict(Err("ConnectionInvalidState", conn_end_on_b.state), FALSE)
    ELSE verify_proofs(ctx, msg, chan_end_on_b, conn_end_on_b)

(***************************************************************************)
(* chan_close_confirm_validate (chan_close_confirm.rs:19-32).  `module`    *)
(* is the behaviour of the application module's callbacks.  The context is *)
(* borrowed immutably: it is returned as it was received.                  *)
(***************************************************************************)
\* variant of chan_close_confirm_validate: validation and execution in a
\* single pass, the channel end is closed as soon as validation passes
chan_close_confirm_validate_SinglePass(ctx, module, msg) ==
    LET v == validate(ctx, msg)
        path == ChannelEndPath(msg.port_id_on_b, msg.chan_id_on_b)
    IN
    IF v.res # Ok
    THEN [ctx |-> ctx, res |-> v.res, verified |-> v.verified, calls |-> <<>>]
    ELSE [ctx |-> store_channel(ctx, path, set_state(channel_end(ctx, path), "Closed")),
          res |-> IF module.validate_err THEN Err("ModuleError", "") ELSE Ok,
          verified |-> v.verified,
          calls |-> <<"on_chan_close_confirm_validate">>]

\* variant of chan_close_confirm_validate: the module callback runs before
\* the core validation
chan_close_confirm_validate_CallbackFirst(ctx, module, msg) ==
    LET v == validate(ctx, msg) IN
    IF module.validate_err
    THEN [ctx |-> ctx, res |-> Err("ModuleError", ""), verified |-> FALSE,
          calls |-> <<"on_chan_close_confirm_validate">>]
    ELSE [ctx |-> ctx, res |-> v.res, verified |-> v.verified,
          calls |-> <<"on_chan_close_confirm_validate">>]

\* variant of chan_close_confirm_validate: only the module callback decides
chan_close_confirm_validate_CallbackOnly(ctx, module, msg) ==
    [ctx |-> ctx,
     res |-> IF module.validate_err THEN Err("ModuleError", "") ELSE Ok,
     verified |-> FALSE,
     calls |-> <<"on_chan_close_confirm_validate">>]

chan_close_confirm_validate(ctx, module, msg) ==
    LET v == validate(ctx, msg) IN
    IF v.res # Ok
    THEN [ctx |-> ctx, res |-> v.res, verified |-> v.verified, calls |-> <<>>]
    ELSE [ctx |-> ctx,
          res |-> IF module.validate_err THEN Err("ModuleError", "") ELSE Ok,
          verified |-> v.verified,
          calls |-> <<"on_chan_close_confirm_validate">>]

(***************************************************************************)
(* chan_close_confirm_execute (chan_close_confirm.rs:34-94).               *)
(***************************************************************************)
IbcEvent_Message_Channel == [kind |-> "Message", module |-> "Channel"]
IbcEvent_CloseConfirmChannel(port_id_on_b, chan_id_on_b, port_id_on_a, chan_id_on_a, conn_id_on_b) ==
    [port_id |-> port_id_on_b,
     kind |-> "CloseConfirmChannel", chan_id |-> chan_id_on_b,
     conn_id |-> conn_id_on_b,
     counterparty_port_id |-> port_id_on_a,
     counterparty_chan_id |-> chan_id_on_a]
IbcEvent_Module(module_event) == [kind |-> "Module", event |-> module_event]

\* one host write
W_store(path, chan_end) == [path |-> path, op |-> "store_channel", arg |-> chan_end]
W_log(message) == [path |-> <<>>, op |-> "log_message", arg |-> message]
W_emit(event) == [path |-> <<>>, op |-> "emit_ibc_event", arg |-> event]

apply_write(ctx, w) ==
    CASE w.op = "store_channel" -> store_channel(ctx, w.path, w.arg)
      [] w.op = "log_message" -> log_message(ctx, w.arg)
      [] w.op = "emit_ibc_event" -> emit_ibc_event(ctx, w.arg)

RECURSIVE apply_writes(_, _, _)
\* the first n writes of ws, in order
apply_writes(ctx, ws, n) ==
    IF n = 0 THEN ctx
    ELSE apply_write(apply_writes(ctx, ws, n - 1), ws[n])

\* variants of closed_chan_end: the state is not set; the state is set to Init
closed_chan_end_NotSet(chan_end_on_b) == chan_end_on_b
closed_chan_end_Init(chan_end_on_b) == set_state(chan_end_on_b, "Init")

\* variant of closed_chan_end: the stored end is rebuilt with an empty version
closed_chan_end_Rebuilt(chan_end_on_b) ==
    ChannelEnd("Closed", chan_end_on_b.ordering,
               chan_end_on_b.counterparty.port_id,
               chan_end_on_b.counterparty.channel_id,
               chan_end_on_b.connection_hops, "")

\* lines 48-52: the channel end that is stored
closed_chan_end(chan_end_on_b) == set_state(chan_end_on_b, "Closed")

\* lines 53-58: the state change and the first log line
state_writes(chan_end_path_on_b, chan_end_on_b) ==
    << W_store(chan_end_path_on_b, closed_chan_end(chan_end_on_b)),
       W_log("success: channel close confirm") >>

\* lines 60-80
core_event(msg, chan_end_on_b) ==
    IbcEvent_CloseConfirmChannel(msg.port_id_on_b, msg.chan_id_on_b,
                                 chan_end_on_b.counterparty.port_id,
                                 chan_end_on_b.counterparty.channel_id,
                                 chan_end_on_b.connection_hops[1])

\* variant of event_writes: the core event is emitted before Message(Channel)
event_writes_CoreFirst(msg, chan_end_on_b, extras) ==
    << W_emit(core_event(msg, chan_end_on_b)), W_emit(IbcEvent_Message_Channel) >>
    \o [i \in 1..Len(extras.events) |-> W_emit(IbcEvent_Module(extras.events[i]))]
    \o [i \in 1..Len(extras.log) |-> W_log(extras.log[i])]

\* lines 81-90: the events and logs, in the order they are emitted
event_writes(msg, chan_end_on_b, extras) ==
    << W_emit(IbcEvent_Message_Channel), W_emit(core_event(msg, chan_end_on_b)) >>
    \o [i \in 1..Len(extras.events) |-> W_emit(IbcEvent_Module(extras.events[i]))]
    \o [i \in 1..Len(extras.log) |-> W_log(extras.log[i])]

\* variant of chan_close_confirm_execute: the module callback runs after
\* the channel end is stored and the first log line is written
chan_close_confirm_execute_CallbackLate(ctx, module, msg, host_fail) ==
    LET calls == <<"on_chan_close_confirm_execute">>
        chan_end_path_on_b == ChannelEndPath(msg.port_id_on_b, msg.chan_id_on_b)
    IN
    IF ~has_channel_end(ctx, chan_end_path_on_b)
    THEN [ctx |-> ctx, res |-> Err("ChannelNotFound", ""), calls |-> <<>>]
    ELSE
    LET chan_end_on_b == channel_end(ctx, chan_end_path_on_b)
        ws1 == state_writes(chan_end_path_on_b, chan_end_on_b)
        ws2 == ws1 \o event_writes(msg, chan_end_on_b, module.extras)
    IN
    IF host_fail \in 1..Len(ws1)
    THEN [ctx |-> apply_writes(ctx, ws1, host_fail - 1),
          res |-> Err("HostError", ws1[host_fail].op), calls |-> <<>>]
    ELSE IF module.execute_err
    THEN [ctx |-> apply_writes(ctx, ws1, Len(ws1)),
          res |-> Err("ModuleError", ""), calls |-> calls]
    ELSE IF chan_end_on_b.counterparty.channel_id = None
    THEN [ctx |-> apply_writes(ctx, ws1, Len(ws1)),
          res |-> Err("Other",
              "internal error: ChannelEnd doesn't have a counterparty channel id in CloseInit"),
          calls |-> calls]
    ELSE IF host_fail \in 1..Len(ws2)
    THEN [ctx |-> apply_writes(ctx, ws2, host_fail - 1),
          res |-> Err("HostError", ws2[host_fail].op), calls |-> calls]
    ELSE [ctx |-> apply_writes(ctx, ws2, Len(ws2)), res |-> Ok, calls |-> calls]

\* host_fail = 0: every host write succeeds; host_fail = k > 0: the k-th
\* host write of this call returns an error
chan_close_confirm_execute(ctx, module, msg, host_fail) ==
    LET calls == <<"on_chan_close_confirm_execute">>
        chan_end_path_on_b == ChannelEndPath(msg.port_id_on_b, msg.chan_id_on_b)
    IN
    IF module.execute_err
    THEN [ctx |-> ctx, res |-> Err("ModuleError", ""), calls |-> calls]
    ELSE IF ~has_channel_end(ctx, chan_end_path_on_b)
    THEN [ctx |-> ctx, res |-> Err("ChannelNotFound", ""), calls |-> calls]
    ELSE
    LET chan_end_on_b == channel_end(ctx, chan_end_path_on_b)
        ws1 == state_writes(chan_end_path_on_b, chan_end_on_b)
        ws2 == ws1 \o event_writes(msg, chan_end_on_b, module.extras)
    IN
    IF host_fail \in 1..Len(ws1)
    THEN [ctx |-> apply_writes(ctx, ws1, host_fail - 1),
          res |-> Err("HostError", ws1[host_fail].op), calls |-> calls]
    ELSE IF chan_end_on_b.counterparty.channel_id = None
    THEN [ctx |-> apply_writes(ctx, ws1, Len(ws1)),
          res |-> Err("Other",
              "internal error: ChannelEnd doesn't have a counterparty channel id in CloseInit"),
          calls |-> calls]
    ELSE IF host_fail \in 1..Len(ws2)
    THEN [ctx |-> apply_writes(ctx, ws2, host_fail - 1),
          res |-> Err("HostError", ws2[host_fail].op), calls |-> calls]
    ELSE [ctx |-> apply_writes(ctx, ws2, Len(ws2)), res |-> Ok, calls |-> calls]

(***************************************************************************)
(* Unsigned integers of arbitrary size: little-endian sequences of limbs   *)
(* in base 2^15 without leading zero limbs.  They carry u64 values and the *)
(* exact intermediate values of the f64 arithmetic of                      *)
(* calculate_block_delay.                                                  *)
(***************************************************************************)
Base == 32768
LimbBits == 15

RECURSIVE Pow2(_)
Pow2(k) == IF k = 0 THEN 1 ELSE 2 * Pow2(k - 1)

RECURSIVE BigNorm(_)
BigNorm(a) ==
    IF a = <<>> THEN <<>>
    ELSE IF a[Len(a)] = 0 THEN BigNorm(SubSeq(a, 1, Len(a) - 1))
    ELSE a

RECURSIVE BigFromInt(_)
BigFromInt(n) == IF n = 0 THEN <<>> ELSE <<n % Base>> \o BigFromInt(n \div Base)

BigZero == <<>>
BigOne == <<1>>

Limb(a, i) == IF i <= Len(a) THEN a[i] ELSE 0

RECURSIVE BigCmpFrom(_, _, _)
\* compares limbs i, i-1, ..., 1 of two numbers of equal length
BigCmpFrom(a, b, i) ==
    IF i = 0 THEN 0
    ELSE IF a[i] < b[i] THEN -1
    ELSE IF a[i] > b[i] THEN 1
    ELSE BigCmpFrom(a, b, i - 1)

BigCmp(a, b) ==
    IF Len(a) < Len(b) THEN -1
    ELSE IF Len(a) > Len(b) THEN 1
    ELSE BigCmpFrom(a, b, Len(a))

RECURSIVE BigAddFrom(_, _, _, _)
BigAddFrom(a, b, i, carry) ==
    IF i > Len(a) /\ i > Len(b)
    THEN (IF carry = 0 THEN <<>> ELSE <<carry>>)
    ELSE LET x == Limb(a, i) + Limb(b, i) + carry
         IN <<x % Base>> \o BigAddFrom(a, b, i + 1, x \div Base)

BigAdd(a, b) == BigAddFrom(a, b, 1, 0)

RECURSIVE BigSubFrom(_, _, _, _)
BigSubFrom(a, b, i, borrow) ==
    IF i > Len(a) THEN <<>>
    ELSE LET x == a[i] - Limb(b, i) - borrow
         IN IF x < 0 THEN <<x + Base>> \o BigSubFrom(a, b, i + 1, 1)
            ELSE <<x>> \o BigSubFrom(a, b, i + 1, 0)

\* a - b for a >= b
BigSub(a, b) == BigNorm(BigSubFrom(a, b, 1, 0))

RECURSIVE BigMulSmallFrom(_, _, _, _)
BigMulSmallFrom(a, k, i, carry) ==
    IF i > Len(a) THEN (IF carry = 0 THEN <<>> ELSE <<carry>>)
    ELSE LET x == a[i] * k + carry
         IN <<x % Base>> \o BigMulSmallFrom(a, k, i + 1, x \div Base)

\* a * k for 0 <= k < Base
BigMulSmall(a, k) == IF k = 0 THEN <<>> ELSE BigMulSmallFrom(a, k, 1, 0)

BigShlLimbs(a, n) == IF a = <<>> THEN <<>> ELSE [i \in 1..n |-> 0] \o a

\* a * 2^k
BigShl(a, k) == BigShlLimbs(BigMulSmall(a, Pow2(k % LimbBits)), k \div LimbBits)

RECURSIVE BigMulFrom(_, _, _)
BigMulFrom(a, b, i) ==
    IF i > Len(b) THEN <<>>
    ELSE BigAdd(BigShlLimbs(BigMulSmall(a, b[i]), i - 1), BigMulFrom(a, b, i + 1))

BigMul(a, b) == BigMulFrom(a, b, 1)

RECURSIVE BitLenLimb(_)
BitLenLimb(x) == IF x = 0 THEN 0 ELSE 1 + BitLenLimb(x \div 2)

\* number of bits of a: the least n with a < 2^n
BigBitLen(a) ==
    IF a = <<>> THEN 0 ELSE (Len(a) - 1) * LimbBits + BitLenLimb(a[Len(a)])

BigIsOdd(a) == a # <<>> /\ a[1] % 2 = 1

RECURSIVE BigDigit(_, _, _, _)
\* the largest t + x with x < 2^(j+1) and d * (t + x) <= r
BigDigit(r, d, t, j) ==
    IF j < 0 THEN t
    ELSE LET t2 == t + Pow2(j)
         IN IF BigCmp(BigMulSmall(d, t2), r) <= 0
            THEN BigDigit(r, d, t2, j - 1)
            ELSE BigDigit(r, d, t, j - 1)

RECURSIVE BigDivFrom(_, _, _)
\* long division of the number made of limbs i..Len(n) of n
BigDivFrom(n, d, i) ==
    IF i > Len(n) THEN [quot |-> <<>>, rem |-> <<>>]
    ELSE LET hi == BigDivFrom(n, d, i + 1)
             r == BigAdd(BigShlLimbs(hi.rem, 1), BigFromInt(n[i]))
             t == BigDigit(r, d, 0, LimbBits - 1)
         IN IF hi.rem = <<>> /\ n[i] = 0
            THEN [quot |-> BigShlLimbs(hi.quot, 1), rem |-> <<>>]
            ELSE [quot |-> BigNorm(<<t>> \o hi.quot),
                  rem |-> BigSub(r, BigMulSmall(d, t))]

\* quotient and remainder of n by d, for d > 0
BigDivMod(n, d) == BigDivFrom(n, d, 1)

U64Max == BigSub(BigShl(BigOne, 64), BigOne)

(***************************************************************************)
(* IEEE-754 binary64 values that are finite and not negative: m * 2^e with *)
(* m = 0 or 2^52 <= m < 2^53.  Every operation rounds to nearest, ties to  *)
(* even, as the hardware does.  Exponents stay far inside the normal range *)
(* for the values a Duration can hold.                                     *)
(***************************************************************************)
MantBits == 53
F64(m, e) == [m |-> m, e |-> e]
F64Zero == F64(<<>>, 0)

\* the quotient n * 2^k / d rounded to an integer, ties to even
\* (k may be negative: then n / (d * 2^-k))
RoundQuot(n, d, k) ==
    LET nn == IF k >= 0 THEN BigShl(n, k) ELSE n
        dd == IF k >= 0 THEN d ELSE BigShl(d, 0 - k)
        qr == BigDivMod(nn, dd)
        twice == BigMulSmall(qr.rem, 2)
        c == BigCmp(twice, dd)
        up == c > 0 \/ (c = 0 /\ BigIsOdd(qr.quot))
    IN [floor |-> qr.quot,
        rounded |-> IF up THEN BigAdd(qr.quot, BigOne) ELSE qr.quot]

\* the f64 nearest to (n / d) * 2^e0, for d > 0
F64Round(n, d, e0) ==
    IF n = <<>> THEN F64Zero
    ELSE
    LET k1 == MantBits - (BigBitLen(n) - BigBitLen(d))
        \* with k1 the floor of the quotient has 53 or 54 bits
        k == IF BigBitLen(RoundQuot(n, d, k1).floor) > MantBits THEN k1 - 1 ELSE k1
        m == RoundQuot(n, d, k).rounded
    IN IF BigBitLen(m) > MantBits
       THEN F64(BigShl(BigOne, MantBits - 1), e0 - k + 1)
       ELSE F64(m, e0 - k)

\* `n as f64` for an unsigned integer
F64FromBig(n) == F64Round(n, BigOne, 0)

F64Div(a, b) == F64Round(a.m, b.m, a.e - b.e)

F64Add(a, b) ==
    IF a.m = <<>> THEN b
    ELSE IF b.m = <<>> THEN a
    ELSE LET e == IF a.e < b.e THEN a.e ELSE b.e
         IN F64Round(BigAdd(BigShl(a.m, a.e - e), BigShl(b.m, b.e - e)), BigOne, e)

\* FloatCore::ceil, as an unsigned integer
F64Ceil(a) ==
    IF a.m = <<>> THEN <<>>
    ELSE IF a.e >= 0 THEN BigShl(a.m, a.e)
    ELSE IF 0 - a.e >= MantBits THEN BigOne
    ELSE LET qr == BigDivMod(a.m, BigShl(BigOne, 0 - a.e))
         IN IF qr.rem = <<>> THEN qr.quot ELSE BigAdd(qr.quot, BigOne)

\* `x as u64` of a non-negative integral f64: the cast saturates
AsU64(n) == IF BigCmp(n, U64Max) > 0 THEN U64Max ELSE n

(***************************************************************************)
(* core::time::Duration and calculate_block_delay (context.rs:141-151).    *)
(***************************************************************************)
NANOS_PER_SEC == 1000000000

is_zero(d) == d.secs = 0 /\ d.nanos = 0

\* Duration::as_secs_f64: (secs as f64) + (nanos as f64) / (NANOS_PER_SEC as f64)
as_secs_f64(d) ==
    F64Add(F64FromBig(BigFromInt(d.secs)),
           F64Div(F64FromBig(BigFromInt(d.nanos)),
                  F64FromBig(BigFromInt(NANOS_PER_SEC))))

\* variant of calculate_block_delay without the test for zero: a division
\* by 0.0 gives infinity, or NaN for 0.0 / 0.0, and the cast to u64 turns
\* infinity into u64::MAX and NaN into 0
calculate_block_delay_NoZeroTest(delay_period, max_expected_time) ==
    IF is_zero(max_expected_time)
    THEN (IF is_zero(delay_period) THEN BigZero ELSE U64Max)
    ELSE AsU64(F64Ceil(F64Div(as_secs_f64(delay_period),
                              as_secs_f64(max_expected_time))))

calculate_block_delay(delay_period, max_expected_time) ==
    IF is_zero(max_expected_time) THEN BigZero
    ELSE AsU64(F64Ceil(F64Div(as_secs_f64(delay_period),
                              as_secs_f64(max_expected_time))))

\* the duration in nanoseconds, exactly
as_nanos(d) ==
    BigAdd(BigMul(BigFromInt(d.secs), BigFromInt(NANOS_PER_SEC)), BigFromInt(d.nanos))

\* the least n with n * b >= a, for b > 0
BigCeilDiv(a, b) ==
    LET qr == BigDivMod(a, b)
    IN IF qr.rem = <<>> THEN qr.quot ELSE BigAdd(qr.quot, BigOne)

(***************************************************************************)
(* Host states and messages of the model.                                  *)
(***************************************************************************)
RootA == "rootA1"
DelayPeriods == {ZERO_DURATION, Duration(10, 0)}
max_expected_time_per_block == Duration(2, 0)
\* <<host time, host height>>
HostClocks == {<<105, 10>>, <<120, 3>>, <<120, 10>>}

\* channel ends as the handshake leaves them: ChanOpenInit stores no
\* counterparty channel id, ChanOpenTry and ChanOpenAck store one, and an
\* end can be closed before or after it learned the id
ChanEndsB(chan_id) ==
    { ChannelEnd(st, OrderOf(chan_id), PortIdB, None, <<ConnIdB>>, VersionB) :
        st \in {"Init", "Closed"} }
    \cup { ChannelEnd(st, OrderOf(chan_id), PortIdB, ChanIdOnA(chan_id),
                      <<ConnIdB>>, VersionB) :
             st \in {"TryOpen", "Open", "Closed"} }

ConnEndsB ==
    { ConnectionEnd("Init", ClientIdB, None, ZERO_DURATION),
      ConnectionEnd("TryOpen", ClientIdB, ConnIdA, ZERO_DURATION) }
    \cup { ConnectionEnd("Open", ClientIdB, ConnIdA, d) : d \in DelayPeriods }

ClientStates == { [status |-> st, latest_height |-> LatestHeight] : st \in Statuses }

EmptyMap == [k \in {} |-> 0]
Singleton(k, v) == [x \in {k} |-> v]

\* the channel end of A that a proof attests: the counterparty of the
\* channel (PortIdB, chan_id_on_b), in the given state
ChanEndOnA(chan_id_on_b, st) ==
    ChannelEnd(st, OrderOf(chan_id_on_b), PortIdB, chan_id_on_b, <<ConnIdA>>, VersionB)
ProofOnA(chan_id_on_b, st) ==
    CommitmentProof(RootA, PrefixA,
                    Path_ChannelEnd(ChannelEndPath(PortIdB, ChanIdOnA(chan_id_on_b))),
                    ChanEndOnA(chan_id_on_b, st))

MsgChannelCloseConfirm(port, chan, proof, height, signer) ==
    [chan_id_on_b |-> chan, signer |-> signer, proof_chan_end_on_a |-> proof,
     port_id_on_b |-> port, proof_height_on_a |-> height]

\* the well-formed message for each channel of B
DirectMsgs ==
    { MsgChannelCloseConfirm(PortIdB, c, ProofOnA(c, "Closed"), ConsensusHeight,
                             "cosmos1signer") : c \in ChanIdsB }

\* the well-formed messages and their variants with one defect: a proof
\* that A's end is still Open, a proof height above the client's latest
\* height, an invalid signer
Msgs ==
    DirectMsgs
    \cup { [m EXCEPT !.proof_chan_end_on_a = ProofOnA(m.chan_id_on_b, "Open")] :
             m \in DirectMsgs }
    \cup { [m EXCEPT !.proof_height_on_a = LatestHeight + 1] : m \in DirectMsgs }
    \cup { [m EXCEPT !.signer = ""] : m \in DirectMsgs }

NoMsg ==
    MsgChannelCloseConfirm("", "",
        CommitmentProof("", "", <<>>, ChannelEnd("Uninitialized", "", "", None, <<>>, "")),
        0, "")

NoExtras == [events |-> <<>>, log |-> <<>>]
ModuleExtras == {NoExtras, [events |-> <<"transfer">>, log |-> <<"transfer: closed">>]}
Module(validate_err, execute_err, extras) ==
    [validate_err |-> validate_err, extras |-> extras, execute_err |-> execute_err]

(***************************************************************************)
(* Specification of the handler.                                           *)
(***************************************************************************)
DelayIdle ==
    /\ pc = "idle"
    /\ delay_period_time = ZERO_DURATION
    /\ max_time_per_block = ZERO_DURATION
    /\ block_delay = BigZero

\* no conversion is in progress
ConvIdle ==
    /\ input = <<>>
    /\ output = <<>>

Init ==
    /\ \E c0 \in {EmptyMap} \cup
                 { Singleton(ChannelEndPath(PortIdB, "channel-0"), e) :
                     e \in ChanEndsB("channel-0") } :
         channels = [k \in DOMAIN c0 \cup {ChannelEndPath(PortIdB, "channel-1")} |->
                        IF k \in DOMAIN c0 THEN c0[k]
                        ELSE ChannelEnd("Open", OrderOf("channel-1"), PortIdB,
                                        ChanIdOnA("channel-1"), <<ConnIdB>>, VersionB)]
    /\ connections \in {EmptyMap} \cup { Singleton(ConnIdB, e) : e \in ConnEndsB }
    /\ clients \in {EmptyMap} \cup { Singleton(ClientIdB, e) : e \in ClientStates }
    /\ consensus \in
         IF clients = EmptyMap THEN {EmptyMap}
         ELSE (IF clients[ClientIdB].status = "Active" THEN {EmptyMap} ELSE {}) \cup
              {Singleton(ClientConsensusStatePath(ClientIdB, ConsensusHeight),
                         [root |-> RootA, timestamp |-> ConsensusTimestamp])}
    /\ events = <<>>
    /\ log = <<>>
    /\ \E hc \in HostClocks : host_time = hc[1] /\ host_height = hc[2]
    /\ last = [res |-> Ok, verified |-> FALSE, msg |-> NoMsg, module |-> Module(FALSE, FALSE, NoExtras),
               calls |-> <<>>, op |-> "none",
               host_fail |-> 0, prevalidated |-> FALSE]
    /\ DelayIdle
    /\ ConvIdle

SetCtx(ctx) ==
    /\ channels' = ctx.channels
    /\ connections' = ctx.connections
    /\ clients' = ctx.clients
    /\ consensus' = ctx.consensus
    /\ events' = ctx.events
    /\ log' = ctx.log
    /\ host_time' = ctx.host_time
    /\ host_height' = ctx.host_height

\* a ChanCloseConfirm message is validated
Validate(msg, module) ==
    LET r == chan_close_confirm_validate(Ctx, module, msg) IN
    /\ SetCtx(r.ctx)
    /\ last' = [res |-> r.res, verified |-> r.verified, msg |-> msg,
                module |-> module, calls |-> r.calls, op |-> "validate",
                host_fail |-> 0, prevalidated |-> FALSE]
    /\ UNCHANGED delayVars
    /\ UNCHANGED convVars

\* a ChanCloseConfirm message is executed
Execute(msg, module, host_fail) ==
    LET r == chan_close_confirm_execute(Ctx, module, msg, host_fail) IN
    /\ Len(events) + 2 + Len(module.extras.events) <= MaxEvents
    /\ Len(log) + 1 + Len(module.extras.log) <= MaxLog
    /\ SetCtx(r.ctx)
    /\ last' = [res |-> r.res, verified |-> FALSE, msg |-> msg,
                module |-> module, calls |-> r.calls, op |-> "execute",
                host_fail |-> host_fail,
                prevalidated |-> (last.op = "validate" /\ last.res = Ok /\ last.msg = msg)]
    /\ UNCHANGED delayVars
    /\ UNCHANGED convVars

ValidateStep ==
    \E msg \in Msgs, verr \in BOOLEAN : Validate(msg, Module(verr, FALSE, NoExtras))

ExecuteStep ==
    \E msg \in DirectMsgs \cup (IF last.op = "validate" THEN {last.msg} ELSE {}) :
        \/ Execute(msg, Module(FALSE, TRUE, NoExtras), 0)
        \/ \E extras \in ModuleExtras, host_fail \in 0..MaxHostFail :
              Execute(msg, Module(FALSE, FALSE, extras), host_fail)

Next == ValidateStep \/ ExecuteStep

Spec == Init /\ [][Next]_vars

(***************************************************************************)
(* Specification of calculate_block_delay: the inputs are drawn in the     *)
(* initial state and the function is applied once.                         *)
(***************************************************************************)
MaxDelaySecs == 10
MaxBlockSecs == 2
SubSecNanos == {0, 1000, 1000000, 100000000, 300000000}

HostIdle ==
    /\ channels = Singleton(ChannelEndPath(PortIdB, "channel-0"),
                            ChannelEnd("Open", OrderOf("channel-0"), PortIdB,
                                       ChanIdOnA("channel-0"), <<ConnIdB>>, VersionB))
    /\ connections = Singleton(ConnIdB, ConnectionEnd("Open", ClientIdB, ConnIdA, ZERO_DURATION))
    /\ clients = Singleton(ClientIdB, [status |-> "Active", latest_height |-> LatestHeight])
    /\ consensus = Singleton(ClientConsensusStatePath(ClientIdB, ConsensusHeight),
                             [root |-> RootA, timestamp |-> ConsensusTimestamp])
    /\ events = <<>>
    /\ log = <<>>
    /\ host_time = 120
    /\ host_height = 10
    /\ last = [res |-> Ok, verified |-> FALSE, msg |-> NoMsg, module |-> Module(FALSE, FALSE, NoExtras),
               calls |-> <<>>, op |-> "none",
               host_fail |-> 0, prevalidated |-> FALSE]

InitDelay ==
    /\ HostIdle
    /\ pc = "start"
    /\ delay_period_time \in { Duration(sc, ns) : sc \in 0..MaxDelaySecs, ns \in SubSecNanos }
    /\ max_time_per_block \in { Duration(sc, ns) : sc \in 0..MaxBlockSecs, ns \in SubSecNanos }
    /\ block_delay = BigZero
    /\ ConvIdle

CalculateBlockDelay ==
    /\ pc = "start"
    /\ block_delay' = calculate_block_delay(delay_period_time, max_time_per_block)
    /\ pc' = "done"
    /\ UNCHANGED <<delay_period_time, max_time_per_block, last>>
    /\ UNCHANGED hostVars
    /\ UNCHANGED convVars

NextDelay == CalculateBlockDelay

SpecDelay == InitDelay /\ [][NextDelay]_vars

(***************************************************************************)
(* Properties.                                                             *)
(***************************************************************************)
\* the channel end path named by the last message, and what it resolves to
LastPath == ChannelEndPath(last.msg.port_id_on_b, last.msg.chan_id_on_b)
LastChanEnd == channels[LastPath]
LastConnEnd == connections[LastChanEnd.connection_hops[1]]
LastClient == clients[LastConnEnd.client_id]
HasLastChanEnd == LastPath \in DOMAIN channels
HasLastConnEnd ==
    HasLastChanEnd /\ LastChanEnd.connection_hops[1] \in DOMAIN connections
HasLastClient == HasLastConnEnd /\ LastConnEnd.client_id \in DOMAIN clients

\* C1: after chan_close_confirm_execute returns Ok, the channel end stored
\* at (port_id_on_b, chan_id_on_b) has state Closed
C1_ExecuteOkStoresClosed ==
    (last.op = "execute" /\ last.res = Ok) =>
        (HasLastChanEnd /\ LastChanEnd.state = "Closed")

C1_Witness ==
    last.op = "execute" /\ last.res = Ok /\ last.prevalidated

\* C2: whenever chan_close_confirm_execute returns an error, the stored
\* channel ends, the event list and the log are what they were before
C2_ExecuteErrLeavesHost ==
    [][(last'.op = "execute" /\ last'.res # Ok) =>
          (channels' = channels /\ events' = events /\ log' = log)]_vars

\* C3: chan_close_confirm_validate writes nothing, whatever it returns
C3_ValidateWritesNothing ==
    [][last'.op = "validate" => UNCHANGED hostVars]_vars

C3_Witness ==
    last.op = "validate" /\ last.res = Ok /\ last.verified

\* C4: a successful execute whose callback returns no extra events appends
\* exactly Message(Channel) and then CloseConfirmChannel
C4_TwoEventsInOrder ==
    [][(last'.op = "execute" /\ last'.res = Ok /\ last'.module.extras.events = <<>>) =>
          /\ Len(events') = Len(events) + 2
          /\ SubSeq(events', 1, Len(events)) = events
          /\ events'[Len(events) + 1] = IbcEvent_Message_Channel
          /\ events'[Len(events) + 2].kind = "CloseConfirmChannel"]_vars

C4_Witness ==
    /\ last.op = "execute" /\ last.res = Ok /\ last.module.extras.events = <<>>
    /\ Len(events) = 2
    /\ events[2].kind = "CloseConfirmChannel"

\* C5: no step moves a channel end backward in Init < TryOpen < Open < Closed
\* (a Closed end stays Closed), and a ChanCloseConfirm for a Closed channel
\* fails validation and writes nothing
C5_NoBackwardTransition ==
    [][/\ \A p \in DOMAIN channels :
            /\ p \in DOMAIN channels'
            /\ StateRank(channels'[p].state) >= StateRank(channels[p].state)
       /\ (/\ last'.op = "validate"
           /\ ChannelEndPath(last'.msg.port_id_on_b, last'.msg.chan_id_on_b)
                 \in DOMAIN channels
           /\ channels[ChannelEndPath(last'.msg.port_id_on_b,
                                      last'.msg.chan_id_on_b)].state = "Closed")
          => (last'.res # Ok /\ UNCHANGED hostVars)]_vars

C5_Witness ==
    /\ last.op = "validate" /\ last.res = Err("InvalidState", "Closed")
    /\ Len(events) >= 2
    /\ events[2].kind = "CloseConfirmChannel"
    /\ events[2].chan_id = last.msg.chan_id_on_b

\* C6 as stated: validation rejects the message when the local channel end
\* is in Init or TryOpen
C6_RejectsInitAndTryOpen ==
    (last.op = "validate" /\ HasLastChanEnd /\ LastChanEnd.state \in {"Init", "TryOpen"})
        => last.res # Ok

\* C6: validation rejects the message when the local channel end is Closed,
\* and gives an end in Init or TryOpen the verdict it gives the same end in Open
C6_RejectsOnlyClosed ==
    (last.op = "validate" /\ HasLastChanEnd) =>
        IF LastChanEnd.state = "Closed"
        THEN last.res # Ok
        ELSE last.res =
               chan_close_confirm_validate(
                   store_channel(Ctx, LastPath, set_state(LastChanEnd, "Open")),
                   last.module, last.msg).res

C6_Witness ==
    last.op = "validate" /\ last.res = Ok /\ LastChanEnd.state = "TryOpen"

\* C7 as stated: validation fails with ClientNotActive{status} whenever the
\* client that tracks A is not Active, without verifying the proof
C7_AlwaysClientNotActive ==
    (last.op = "validate" /\ HasLastClient /\ LastClient.status # "Active") =>
        (last.res = Err("ClientNotActive", LastClient.status) /\ ~last.verified)

\* C7: with a client that is not Active validation fails and the membership
\* proof is not verified; the error is ClientNotActive{status} when the
\* checks before the status check pass
C7_InactiveClientRejected ==
    (last.op = "validate" /\ HasLastClient /\ LastClient.status # "Active") =>
        /\ last.res # Ok
        /\ ~last.verified
        /\ (/\ validate_message_signer(last.msg.signer)
            /\ LastChanEnd.state # "Closed"
            /\ LastConnEnd.state = "Open")
           => last.res = Err("ClientNotActive", LastClient.status)

C7_Witness ==
    /\ last.op = "validate" /\ HasLastClient
    /\ LastClient.status = "Frozen"
    /\ last.res = Err("ClientNotActive", "Frozen")
    /\ last.msg \in DirectMsgs

\* C8: validate calls only on_chan_close_confirm_validate, once and only
\* when the core validation passed; execute calls only
\* on_chan_close_confirm_execute, once
C8_CallbacksNotMixed ==
    /\ last.op = "validate" =>
          /\ last.calls \in {<<>>, <<"on_chan_close_confirm_validate">>}
          /\ (last.calls # <<>>) <=> (validate(Ctx, last.msg).res = Ok)
    /\ last.op = "execute" => last.calls = <<"on_chan_close_confirm_execute">>

C8_Witness ==
    /\ last.op = "validate"
    /\ last.calls = <<"on_chan_close_confirm_validate">>
    /\ last.res = Err("ModuleError", "")

C10_BlockDelayIsCeil ==
    (pc = "done" /\ ~is_zero(max_time_per_block)) =>
        block_delay = BigCeilDiv(as_nanos(delay_period_time), as_nanos(max_time_per_block))

(***************************************************************************)
(* Coin parsing (applications/transfer/coin.rs).  A string is a sequence   *)
(* of characters, a character a string of length one.                      *)
(***************************************************************************)
MaxCoinLen == 4

Digits == <<"0", "1", "2", "3", "4", "5", "6", "7", "8", "9">>
DigitChars == { Digits[i] : i \in 1..10 }
LetterChars ==
    {"a", "b", "c", "d", "e", "f", "g", "h", "i", "j", "k", "l", "m",
     "n", "o", "p", "q", "r", "s", "t", "u", "v", "w", "x", "y", "z",
     "A", "B", "C", "D", "E", "F", "G", "H", "I", "J", "K", "L", "M",
     "N", "O", "P", "Q", "R", "S", "T", "U", "V", "W", "X", "Y", "Z"}
\* the class [a-zA-Z0-9/:\\._\x2d] of the second group of the matcher
DenomChars == LetterChars \cup DigitChars \cup {"/", ":", "\\", ".", "_", "-"}
DigitVal(c) == (CHOOSE i \in 1..10 : Digits[i] = c) - 1

Coin(denom, amount) == [denom |-> denom, amount |-> amount]
NoCoin == Coin(<<>>, 0)
CoinOk(coin) == [kind |-> "Ok", detail |-> <<>>, coin |-> coin]
CoinErr(kind, coin_str) == [kind |-> kind, detail |-> coin_str, coin |-> NoCoin]

\* regex!(br"([0-9]+)([a-zA-Z0-9/:\\._\x2d]+)").match_slices: the expression
\* has to match the whole input, and the first group takes the longest run
\* of digits that leaves the second group a match
match_slices_Lazy(bytes) ==
    LET n == Len(bytes)
        ks == { k \in 1..(n - 1) :
                  /\ \A i \in 1..k : bytes[i] \in DigitChars
                  /\ \A i \in (k + 1)..n : bytes[i] \in DenomChars }
    IN  IF ks = {} THEN [matched |-> FALSE, m1 |-> <<>>, m2 |-> <<>>]
        ELSE LET k == CHOOSE x \in ks : \A y \in ks : x <= y
             IN  [matched |-> TRUE, m1 |-> SubSeq(bytes, 1, k),
                  m2 |-> SubSeq(bytes, k + 1, n)]
match_slices(bytes) ==
    LET n == Len(bytes)
        ks == { k \in 1..(n - 1) :
                  /\ \A i \in 1..k : bytes[i] \in DigitChars
                  /\ \A i \in (k + 1)..n : bytes[i] \in DenomChars }
    IN  IF ks = {} THEN [matched |-> FALSE, m1 |-> <<>>, m2 |-> <<>>]
        ELSE LET k == CHOOSE x \in ks : \A y \in ks : y <= x
             IN  [matched |-> TRUE, m1 |-> SubSeq(bytes, 1, k),
                  m2 |-> SubSeq(bytes, k + 1, n)]

\* Amount::from_str: a decimal string to a non-negative integer
RECURSIVE DecValue(_)
DecValue(str) ==
    IF str = <<>> THEN 0
    ELSE DecValue(SubSeq(str, 1, Len(str) - 1)) * 10 + DigitVal(str[Len(str)])
Amount_from_str(str) ==
    IF str # <<>> /\ \A i \in 1..Len(str) : str[i] \in DigitChars
    THEN [value |-> DecValue(str), ok |-> TRUE]
    ELSE [value |-> 0, ok |-> FALSE]
\* Display for Amount: decimal, no leading zeros
RECURSIVE Amount_to_string(_)
Amount_to_string(amount) ==
    IF amount < 10 THEN <<Digits[amount + 1]>>
    ELSE Append(Amount_to_string(amount \div 10), Digits[(amount % 10) + 1])
\* FromStr for String (the denomination of a RawCoin) cannot fail
String_from_str(str) == [value |-> str, ok |-> TRUE]

\* Coin::from_str for RawCoin
Coin_from_str(coin_str) ==
    LET m == match_slices(coin_str) IN
    IF ~m.matched THEN CoinErr("InvalidCoin", coin_str)
    ELSE LET amount == Amount_from_str(m.m1)
             denom == String_from_str(m.m2)
         IN  IF ~amount.ok THEN CoinErr("InvalidAmount", coin_str)
             ELSE IF ~denom.ok THEN CoinErr("InvalidDenom", coin_str)
             ELSE CoinOk(Coin(denom.value, amount.value))

\* Display for Coin: write!(f, "{}{}", self.amount, self.denom)
Coin_fmt_DenomFirst(coin) == coin.denom \o Amount_to_string(coin.amount)
Coin_fmt(coin) == Amount_to_string(coin.amount) \o coin.denom

\* str::split(','): the pieces between the separators, empty ones included
RECURSIVE split(_, _)
split(str, sep) ==
    IF \A i \in 1..Len(str) : str[i] # sep THEN <<str>>
    ELSE LET k == CHOOSE i \in 1..Len(str) :
                     str[i] = sep /\ \A j \in 1..(i - 1) : str[j] # sep
         IN  <<SubSeq(str, 1, k - 1)>> \o split(SubSeq(str, k + 1, Len(str)), sep)

CoinsOk(coins) == [kind |-> "Ok", detail |-> <<>>, coins |-> coins]
CoinsErr(res) == [kind |-> res.kind, detail |-> res.detail, coins |-> <<>>]
\* collect::<Result<Vec<_>, _>>: the items in order, or the first error
RECURSIVE collect(_, _)
collect(parts, acc) ==
    IF parts = <<>> THEN CoinsOk(acc)
    ELSE LET res == Coin_from_str(Head(parts)) IN
         IF res.kind # "Ok" THEN CoinsErr(res)
         ELSE collect(Tail(parts), Append(acc, res.coin))

\* Coin::from_string_list for RawCoin
Coin_from_string_list_SkipEmpty(coin_str) ==
    collect(SelectSeq(split(coin_str, ","), LAMBDA part : part # <<>>), <<>>)
Coin_from_string_list(coin_str) == collect(split(coin_str, ","), <<>>)

(***************************************************************************)
(* SpecCoin: a string is parsed as a coin and the coin is printed and      *)
(* parsed again, or the string is parsed as a list of coins.               *)
(***************************************************************************)
RECURSIVE StringsOver(_, _)
StringsOver(alphabet, n) ==
    IF n = 0 THEN {<<>>}
    ELSE LET shorter == StringsOver(alphabet, n - 1)
         IN  shorter \cup { Append(str, c) : str \in shorter, c \in alphabet }
\* the strings the parsers are run on: every short string over a few
\* characters of each kind, the literals of test_parse_raw_coin and
\* test_parse_raw_coin_list, and a denomination of 129 characters
CoinStrs ==
    LET CoinAlphabet == {"0", "1", "9", "a", "Z", "\\", "!", ","}
        CoinLiterals ==
            { <<"1", "2", "3", "s", "t", "a", "k", "e">>,
              <<"1", "a", "1">>,
              <<"0", "x", "1", "/", ":", ".", "\\", "_", "-">>,
              <<"0", "x", "!">>,
              <<"1", "2", "3", "s", "t", "a", "k", "e", ",", "1", "a", "1", ",",
                "9", "9", "9", "d", "e", "n", "0", "m">>,
              [i \in 1..130 |-> IF i = 1 THEN "1" ELSE "a"] }
    IN  StringsOver(CoinAlphabet, MaxCoinLen) \cup CoinLiterals

InitCoin ==
    /\ HostIdle
    /\ pc = "start"
    /\ delay_period_time = ZERO_DURATION
    /\ max_time_per_block = ZERO_DURATION
    /\ block_delay = BigZero
    /\ input \in CoinStrs
    /\ output = <<>>

\* the coin operations touch neither the host nor the block delay
CoinFrame ==
    /\ UNCHANGED <<delay_period_time, max_time_per_block, block_delay, last>>
    /\ UNCHANGED hostVars

\* coin_str.parse::<RawCoin>()
CoinFromStr ==
    /\ pc = "start"
    /\ output' = Coin_from_str(input)
    /\ pc' = "parsed"
    /\ UNCHANGED input
    /\ CoinFrame

\* coin.to_string()
CoinToString ==
    /\ pc = "parsed"
    /\ output.kind = "Ok"
    /\ input' = Coin_fmt(output.coin)
    /\ pc' = "printed"
    /\ UNCHANGED output
    /\ CoinFrame

\* the printed coin is parsed again
CoinReparse ==
    /\ pc = "printed"
    /\ output' = Coin_from_str(input)
    /\ pc' = "reparsed"
    /\ UNCHANGED input
    /\ CoinFrame

\* RawCoin::from_string_list(coin_str)
CoinFromStringList ==
    /\ pc = "start"
    /\ output' = Coin_from_string_list(input)
    /\ pc' = "listed"
    /\ UNCHANGED input
    /\ CoinFrame

NextCoin == CoinFromStr \/ CoinToString \/ CoinReparse \/ CoinFromStringList

SpecCoin == InitCoin /\ [][NextCoin]_vars

(***************************************************************************)
(* Properties of coin parsing, under SpecCoin.                             *)
(***************************************************************************)
\* C11: Coin::from_str accepts exactly the strings that match
\* ^([0-9]+)([a-zA-Z][a-zA-Z0-9/:._-]{2,127})$ and rejects every other string
C11_AcceptsOnlyGrammar ==
    pc = "parsed" =>
        LET n == Len(input)
            separators == {"/", ":", ".", "_", "-"}
            matches ==
                \E k \in 1..n :
                    /\ \A i \in 1..k : input[i] \in DigitChars
                    /\ n - k >= 3 /\ n - k <= 128
                    /\ input[k + 1] \in LetterChars
                    /\ \A i \in (k + 2)..n :
                          input[i] \in LetterChars \cup DigitChars \cup separators
        IN  (output.kind = "Ok") <=> matches

C13_DisplayRoundTrip ==
    [][(pc = "printed" /\ pc' = "reparsed") =>
          (output'.kind = "Ok" /\ output'.coin = output.coin)]_vars
C13_Witness ==
    /\ pc = "reparsed"
    /\ input = <<"9", "a", "Z">>
    /\ output = CoinOk(Coin(<<"a", "Z">>, 9))

\* C14: from_string_list returns one parsed coin per comma-separated element,
\* in input order, and an error with no list when any element fails to parse
C14_ListElementwise ==
    pc = "listed" =>
        LET n == Len(input)
            commas == { i \in 1..n : input[i] = "," }
            starts == commas \cup {0}
            piece(p) ==
                LET q == CHOOSE x \in commas \cup {n + 1} :
                             x > p /\ \A y \in commas \cup {n + 1} : y > p => x <= y
                IN  SubSeq(input, p + 1, q - 1)
            index(p) == Cardinality({ c \in commas : c <= p }) + 1
        IN  IF \A p \in starts : Coin_from_str(piece(p)).kind = "Ok"
            THEN /\ output.kind = "Ok"
                 /\ Len(output.coins) = Cardinality(commas) + 1
                 /\ \A p \in starts :
                       output.coins[index(p)] = Coin_from_str(piece(p)).coin
            ELSE output.kind # "Ok" /\ output.coins = <<>>
C14_Witness ==
    /\ pc = "listed"
    /\ input = <<"1", "2", "3", "s", "t", "a", "k", "e", ",", "1", "a", "1", ",",
                 "9", "9", "9", "d", "e", "n", "0", "m">>
    /\ output.kind = "Ok"
    /\ output.coins = <<Coin(<<"s", "t", "a", "k", "e">>, 123),
                        Coin(<<"a", "1">>, 1),
                        Coin(<<"d", "e", "n", "0", "m">>, 999)>>

(***************************************************************************)
(* Raw (protobuf) messages and their domain types.  An Option is a         *)
(* sequence of at most one element, bytes are a sequence of numbers.       *)
(***************************************************************************)
OptNone == <<>>
Some(x) == <<x>>
is_some(opt) == opt # <<>>

ResOk(value) == [kind |-> "Ok", value |-> <<value>>]
ResErr(kind) == [kind |-> kind, value |-> <<>>]
is_ok(res) == res.kind = "Ok"
unwrap(res) == res.value[1]

\* ICS-24 identifiers: the characters an identifier may hold and the length
\* each kind of identifier may have
IdSpecialChars == {".", "_", "+", "-", "#", "[", "]", "<", ">"}
IdChars == LetterChars \cup DigitChars \cup IdSpecialChars
validate_identifier(id, min, max) ==
    /\ Len(id) >= min
    /\ Len(id) <= max
    /\ \A i \in 1..Len(id) : id[i] \in IdChars
\* the decimal digits of u64::MAX
U64_MAX_DIGITS ==
    <<"1", "8", "4", "4", "6", "7", "4", "4", "0", "7",
      "3", "7", "0", "9", "5", "5", "1", "6", "1", "5">>
\* a <= b for two digit strings of one length
RECURSIVE digits_leq(_, _)
digits_leq(a, b) ==
    IF a = <<>> THEN TRUE
    ELSE IF a[1] # b[1] THEN DigitVal(a[1]) < DigitVal(b[1])
    ELSE digits_leq(Tail(a), Tail(b))
\* whether a string is the decimal form of a u64
is_u64(str) ==
    LET nonzero == { i \in 1..Len(str) : str[i] # "0" }
        first == IF nonzero = {} THEN Len(str)
                 ELSE CHOOSE i \in nonzero : \A j \in nonzero : i <= j
        digits == SubSeq(str, first, Len(str))
    IN  /\ str # <<>>
        /\ \A i \in 1..Len(str) : str[i] \in DigitChars
        /\ \/ Len(digits) < Len(U64_MAX_DIGITS)
           \/ Len(digits) = Len(U64_MAX_DIGITS) /\ digits_leq(digits, U64_MAX_DIGITS)
\* whether a string is {prefix}-{u64}
is_prefixed_u64(str, prefix) ==
    /\ Len(str) > Len(prefix) + 1
    /\ SubSeq(str, 1, Len(prefix)) = prefix
    /\ str[Len(prefix) + 1] = "-"
    /\ is_u64(SubSeq(str, Len(prefix) + 2, Len(str)))
ClientId_parse(str) ==
    IF validate_identifier(str, 9, 64) THEN ResOk(str) ELSE ResErr("InvalidIdentifier")
\* connection-{u64}
ConnectionId_parse(str) ==
    IF is_prefixed_u64(str, <<"c", "o", "n", "n", "e", "c", "t", "i", "o", "n">>)
    THEN ResOk(str) ELSE ResErr("InvalidIdentifier")
PortId_parse(str) ==
    IF validate_identifier(str, 2, 128) THEN ResOk(str) ELSE ResErr("InvalidIdentifier")
\* channel-{u64}
ChannelId_parse(str) ==
    IF is_prefixed_u64(str, <<"c", "h", "a", "n", "n", "e", "l">>)
    THEN ResOk(str) ELSE ResErr("InvalidIdentifier")

\* Height: revision_height 0 is invalid
RawHeight(revision_number, revision_height) ==
    [revision_number |-> revision_number, revision_height |-> revision_height]
Height_try_from(raw_height) ==
    IF raw_height.revision_height = 0 THEN ResErr("InvalidHeight")
    ELSE ResOk([revision_number |-> raw_height.revision_number,
                revision_height |-> raw_height.revision_height])
Height_into_raw(height) == RawHeight(height.revision_number, height.revision_height)

\* CommitmentProofBytes: any non-empty byte string
CommitmentProofBytes_try_from(bytes) ==
    IF bytes = <<>> THEN ResErr("EmptyMerkleProof") ELSE ResOk([bytes |-> bytes])
CommitmentProofBytes_into(proof) == proof.bytes

\* Signer: any string
Signer_from(str) == [signer |-> str]
Signer_to_string(signer) == signer.signer

\* connection Version: an identifier and features, none of them empty
RawVersion(identifier, features) == [identifier |-> identifier, features |-> features]
Version_try_from(raw_version) ==
    IF raw_version.identifier = <<>> THEN ResErr("EmptyVersions")
    ELSE IF \E i \in 1..Len(raw_version.features) : raw_version.features[i] = <<>>
    THEN ResErr("EmptyFeatures")
    ELSE ResOk([identifier |-> raw_version.identifier, features |-> raw_version.features])
Version_into_raw(version) == RawVersion(version.identifier, version.features)

\* connection Counterparty: an empty connection id stands for none
RawCounterparty(client_id, connection_id, prefix) ==
    [client_id |-> client_id, connection_id |-> connection_id, prefix |-> prefix]
Counterparty_try_from(raw) ==
    LET client_id == ClientId_parse(raw.client_id)
        connection_id == ConnectionId_parse(raw.connection_id)
    IN  IF raw.connection_id # <<>> /\ ~is_ok(connection_id) THEN ResErr("InvalidIdentifier")
        ELSE IF ~is_ok(client_id) THEN ResErr("InvalidIdentifier")
        ELSE IF ~is_some(raw.prefix) THEN ResErr("MissingCounterparty")
        ELSE IF raw.prefix[1] = <<>> THEN ResErr("InvalidCounterparty")
        ELSE ResOk([client_id |-> unwrap(client_id),
                    connection_id |-> IF raw.connection_id = <<>> THEN OptNone
                                      ELSE Some(unwrap(connection_id)),
                    prefix |-> raw.prefix[1]])
Counterparty_into_raw(counterparty) ==
    RawCounterparty(counterparty.client_id,
                    IF is_some(counterparty.connection_id)
                    THEN counterparty.connection_id[1] ELSE <<>>,
                    Some(counterparty.prefix))

(***************************************************************************)
(* MsgConnectionOpenTry (ics03_connection/msgs/conn_open_try.rs).          *)
(***************************************************************************)
\* the first error of a sequence of results, if any
RECURSIVE first_err(_)
first_err(results) ==
    IF results = <<>> THEN "Ok"
    ELSE IF ~is_ok(Head(results)) THEN Head(results).kind
    ELSE first_err(Tail(results))

\* the height of an optional raw height, taken as it comes
opt_height_Unchecked(raw_opt) ==
    IF is_some(raw_opt)
    THEN Some([revision_number |-> raw_opt[1].revision_number,
               revision_height |-> raw_opt[1].revision_height])
    ELSE OptNone
\* the height of an optional raw height: raw.and_then(|h| h.try_into().ok())
opt_height(raw_opt) ==
    IF is_some(raw_opt) /\ is_ok(Height_try_from(raw_opt[1]))
    THEN Some(unwrap(Height_try_from(raw_opt[1]))) ELSE OptNone
ok_or(opt, err) == IF is_some(opt) THEN ResOk(opt[1]) ELSE ResErr(err)
map_err(res, err) == IF is_ok(res) THEN res ELSE ResErr(err)

\* Duration::from_nanos, and duration.as_nanos() as u64 of a duration made
\* from a u64
Duration_from_nanos(nanos) == Duration(nanos \div NANOS_PER_SEC, nanos % NANOS_PER_SEC)
Duration_as_nanos_u64(duration) == duration.secs * NANOS_PER_SEC + duration.nanos

\* the domain message of a raw message whose every field converts
MsgConnectionOpenTry_fields(msg) ==
    [counterparty |-> unwrap(Counterparty_try_from(msg.counterparty[1])),
     delay_period |-> Duration_from_nanos(msg.delay_period),
     signer |-> Signer_from(msg.signer),
     client_id_on_b |-> unwrap(ClientId_parse(msg.client_id)),
     previous_connection_id |-> msg.previous_connection_id,
     client_state_of_b_on_a |-> msg.client_state[1],
     versions_on_a |-> [i \in 1..Len(msg.counterparty_versions) |->
                           unwrap(Version_try_from(msg.counterparty_versions[i]))],
     proof_conn_end_on_a |-> unwrap(CommitmentProofBytes_try_from(msg.proof_init)),
     proof_client_state_of_b_on_a |-> unwrap(CommitmentProofBytes_try_from(msg.proof_client)),
     proof_consensus_state_of_b_on_a |->
         unwrap(CommitmentProofBytes_try_from(msg.proof_consensus)),
     proofs_height_on_a |-> opt_height(msg.proof_height)[1],
     consensus_height_of_b_on_a |-> opt_height(msg.consensus_height)[1],
     proof_consensus_state_of_b |->
         IF msg.host_consensus_state_proof = <<>> THEN OptNone
         ELSE Some(unwrap(CommitmentProofBytes_try_from(msg.host_consensus_state_proof)))]

\* the checks of TryFrom<RawMsgConnectionOpenTry>, in the order of the code:
\* the versions (lines 160-168)
checks_versions(msg) ==
    [i \in 1..Len(msg.counterparty_versions) |->
        Version_try_from(msg.counterparty_versions[i])] \o
    << IF msg.counterparty_versions = <<>> THEN ResErr("EmptyVersions") ELSE ResOk(<<>>) >>
\* the client id, the client state and the counterparty (lines 175-185)
checks_client(msg) ==
    << ClientId_parse(msg.client_id),
       ok_or(msg.client_state, "MissingClientState"),
       ok_or(msg.counterparty, "MissingCounterparty"),
       IF is_some(msg.counterparty) THEN Counterparty_try_from(msg.counterparty[1])
       ELSE ResOk(<<>>) >>
\* the three proofs (lines 187-198)
checks_proofs(msg) ==
    << map_err(CommitmentProofBytes_try_from(msg.proof_init), "InvalidProof"),
       map_err(CommitmentProofBytes_try_from(msg.proof_client), "InvalidProof"),
       map_err(CommitmentProofBytes_try_from(msg.proof_consensus), "InvalidProof") >>
\* the two heights (lines 199-206)
checks_heights(msg) ==
    << ok_or(opt_height(msg.proof_height), "MissingProofHeight"),
       ok_or(opt_height(msg.consensus_height), "MissingConsensusHeight") >>

\* the same conversion with the versions checked last
MsgConnectionOpenTry_try_from_VersionsLast(msg) ==
    LET err == first_err(checks_client(msg) \o checks_proofs(msg) \o
                         checks_heights(msg) \o checks_versions(msg))
    IN  IF err # "Ok" THEN ResErr(err) ELSE ResOk(MsgConnectionOpenTry_fields(msg))
\* the same conversion with the heights checked before the proofs
MsgConnectionOpenTry_try_from_HeightsFirst(msg) ==
    LET err == first_err(checks_versions(msg) \o checks_client(msg) \o
                         checks_heights(msg) \o checks_proofs(msg))
    IN  IF err # "Ok" THEN ResErr(err) ELSE ResOk(MsgConnectionOpenTry_fields(msg))
\* the same conversion with previous_connection_id parsed as a connection id
MsgConnectionOpenTry_try_from_ParsePrevious(msg) ==
    LET err == first_err(checks_versions(msg) \o
                         << map_err(ConnectionId_parse(msg.previous_connection_id),
                                    "InvalidIdentifier") >> \o
                         checks_client(msg) \o checks_proofs(msg) \o checks_heights(msg))
    IN  IF err # "Ok" THEN ResErr(err) ELSE ResOk(MsgConnectionOpenTry_fields(msg))
\* TryFrom<RawMsgConnectionOpenTry> for MsgConnectionOpenTry
MsgConnectionOpenTry_try_from(msg) ==
    LET err == first_err(checks_versions(msg) \o checks_client(msg) \o
                         checks_proofs(msg) \o checks_heights(msg))
    IN  IF err # "Ok" THEN ResErr(err) ELSE ResOk(MsgConnectionOpenTry_fields(msg))

\* the same conversion without the deprecated field
RawMsgConnectionOpenTry_from_NoPrevious(msg) ==
    [counterparty |-> Some(Counterparty_into_raw(msg.counterparty)),
     client_id |-> msg.client_id_on_b,
     delay_period |-> Duration_as_nanos_u64(msg.delay_period),
     signer |-> Signer_to_string(msg.signer),
     client_state |-> Some(msg.client_state_of_b_on_a),
     proof_height |-> Some(Height_into_raw(msg.proofs_height_on_a)),
     previous_connection_id |-> <<>>,
     counterparty_versions |-> [i \in 1..Len(msg.versions_on_a) |->
                                   Version_into_raw(msg.versions_on_a[i])],
     proof_init |-> CommitmentProofBytes_into(msg.proof_conn_end_on_a),
     proof_client |-> CommitmentProofBytes_into(msg.proof_client_state_of_b_on_a),
     proof_consensus |-> CommitmentProofBytes_into(msg.proof_consensus_state_of_b_on_a),
     consensus_height |-> Some(Height_into_raw(msg.consensus_height_of_b_on_a)),
     host_consensus_state_proof |->
         IF is_some(msg.proof_consensus_state_of_b)
         THEN CommitmentProofBytes_into(msg.proof_consensus_state_of_b[1]) ELSE <<>>]
\* From<MsgConnectionOpenTry> for RawMsgConnectionOpenTry
RawMsgConnectionOpenTry_from(msg) ==
    [counterparty |-> Some(Counterparty_into_raw(msg.counterparty)),
     client_id |-> msg.client_id_on_b,
     delay_period |-> Duration_as_nanos_u64(msg.delay_period),
     signer |-> Signer_to_string(msg.signer),
     client_state |-> Some(msg.client_state_of_b_on_a),
     proof_height |-> Some(Height_into_raw(msg.proofs_height_on_a)),
     previous_connection_id |-> msg.previous_connection_id,
     counterparty_versions |-> [i \in 1..Len(msg.versions_on_a) |->
                                   Version_into_raw(msg.versions_on_a[i])],
     proof_init |-> CommitmentProofBytes_into(msg.proof_conn_end_on_a),
     proof_client |-> CommitmentProofBytes_into(msg.proof_client_state_of_b_on_a),
     proof_consensus |-> CommitmentProofBytes_into(msg.proof_consensus_state_of_b_on_a),
     consensus_height |-> Some(Height_into_raw(msg.consensus_height_of_b_on_a)),
     host_consensus_state_proof |->
         IF is_some(msg.proof_consensus_state_of_b)
         THEN CommitmentProofBytes_into(msg.proof_consensus_state_of_b[1]) ELSE <<>>]

(***************************************************************************)
(* MsgTimeout (ics04_channel/msgs/timeout.rs), MsgChannelCloseInit         *)
(* (ics04_channel/msgs/chan_close_init.rs) and MsgCreateClient             *)
(* (ics02_client/msgs/create_client.rs).                                   *)
(***************************************************************************)
\* Packet: a sequence number that is not zero, the identifiers of its two
\* ends, and at least one timeout; a timestamp of zero means not set
Packet_try_from(raw_pkt) ==
    LET ids == << PortId_parse(raw_pkt.source_port), ChannelId_parse(raw_pkt.source_channel),
                  PortId_parse(raw_pkt.destination_port),
                  ChannelId_parse(raw_pkt.destination_channel) >>
    IN  IF raw_pkt.sequence = 0 THEN ResErr("ZeroPacketSequence")
        ELSE IF first_err(ids) # "Ok" THEN ResErr(first_err(ids))
        ELSE IF is_some(raw_pkt.timeout_height) /\ ~is_some(opt_height(raw_pkt.timeout_height))
        THEN ResErr("InvalidTimeoutHeight")
        ELSE IF ~is_some(raw_pkt.timeout_height) /\ raw_pkt.timeout_timestamp = 0
        THEN ResErr("MissingTimeout")
        ELSE ResOk([chan_id_on_b |-> unwrap(ids[4]),
                    port_id_on_b |-> unwrap(ids[3]), chan_id_on_a |-> unwrap(ids[2]),
                    port_id_on_a |-> unwrap(ids[1]), seq_on_a |-> raw_pkt.sequence,
                    data |-> raw_pkt.data,
                    timeout_height_on_b |-> opt_height(raw_pkt.timeout_height),
                    timeout_timestamp_on_b |->
                        IF raw_pkt.timeout_timestamp = 0 THEN OptNone
                        ELSE Some(raw_pkt.timeout_timestamp)])
Packet_into_raw(packet) ==
    [source_port |-> packet.port_id_on_a,
     source_channel |-> packet.chan_id_on_a, destination_port |-> packet.port_id_on_b,
     destination_channel |-> packet.chan_id_on_b, sequence |-> packet.seq_on_a,
     timeout_height |-> IF is_some(packet.timeout_height_on_b)
                        THEN Some(Height_into_raw(packet.timeout_height_on_b[1])) ELSE OptNone,
     timeout_timestamp |-> IF is_some(packet.timeout_timestamp_on_b)
                           THEN packet.timeout_timestamp_on_b[1] ELSE 0,
     data |-> packet.data]

\* the same conversion with the packet examined before next_sequence_recv
MsgTimeout_try_from_PacketFirst(raw_msg) ==
    LET packet == IF is_some(raw_msg.packet) THEN Packet_try_from(raw_msg.packet[1])
                  ELSE ResErr("MissingPacket")
        sequence == IF raw_msg.next_sequence_recv = 0 THEN ResErr("ZeroPacketSequence")
                    ELSE ResOk(raw_msg.next_sequence_recv)
        proof == map_err(CommitmentProofBytes_try_from(raw_msg.proof_unreceived), "InvalidProof")
        height == ok_or(opt_height(raw_msg.proof_height), "MissingHeight")
    IN  IF first_err(<<packet, sequence, proof, height>>) # "Ok"
        THEN ResErr(first_err(<<packet, sequence, proof, height>>))
        ELSE ResOk([signer |-> Signer_from(raw_msg.signer),
                    packet |-> unwrap(packet),
                    next_seq_recv_on_b |-> raw_msg.next_sequence_recv,
                    proof_unreceived_on_b |-> unwrap(proof),
                    proof_height_on_b |-> unwrap(height)])
\* TryFrom<RawMsgTimeout> for MsgTimeout
MsgTimeout_try_from(raw_msg) ==
    LET packet == IF is_some(raw_msg.packet) THEN Packet_try_from(raw_msg.packet[1])
                  ELSE ResErr("MissingPacket")
        proof == map_err(CommitmentProofBytes_try_from(raw_msg.proof_unreceived), "InvalidProof")
        height == ok_or(opt_height(raw_msg.proof_height), "MissingHeight")
    IN  IF raw_msg.next_sequence_recv = 0 THEN ResErr("ZeroPacketSequence")
        ELSE IF first_err(<<packet, proof, height>>) # "Ok"
        THEN ResErr(first_err(<<packet, proof, height>>))
        ELSE ResOk([signer |-> Signer_from(raw_msg.signer),
                    packet |-> unwrap(packet),
                    next_seq_recv_on_b |-> raw_msg.next_sequence_recv,
                    proof_unreceived_on_b |-> unwrap(proof),
                    proof_height_on_b |-> unwrap(height)])
\* From<MsgTimeout> for RawMsgTimeout
RawMsgTimeout_from(domain_msg) ==
    [signer |-> Signer_to_string(domain_msg.signer),
     proof_height |-> Some(Height_into_raw(domain_msg.proof_height_on_b)),
     packet |-> Some(Packet_into_raw(domain_msg.packet)),
     next_sequence_recv |-> domain_msg.next_seq_recv_on_b,
     proof_unreceived |-> CommitmentProofBytes_into(domain_msg.proof_unreceived_on_b)]

\* the same conversion with the channel id taken as it comes
MsgChannelCloseInit_try_from_PortOnly(raw_msg) ==
    LET port_id == PortId_parse(raw_msg.port_id)
    IN  IF ~is_ok(port_id) THEN ResErr(port_id.kind)
        ELSE ResOk([signer |-> Signer_from(raw_msg.signer),
                    chan_id_on_a |-> raw_msg.channel_id,
                    port_id_on_a |-> unwrap(port_id)])
\* TryFrom<RawMsgChannelCloseInit> for MsgChannelCloseInit
MsgChannelCloseInit_try_from(raw_msg) ==
    LET port_id == PortId_parse(raw_msg.port_id)
        channel_id == ChannelId_parse(raw_msg.channel_id)
    IN  IF first_err(<<port_id, channel_id>>) # "Ok"
        THEN ResErr(first_err(<<port_id, channel_id>>))
        ELSE ResOk([signer |-> Signer_from(raw_msg.signer),
                    chan_id_on_a |-> unwrap(channel_id),
                    port_id_on_a |-> unwrap(port_id)])
\* From<MsgChannelCloseInit> for RawMsgChannelCloseInit
RawMsgChannelCloseInit_from(domain_msg) ==
    [port_id |-> domain_msg.port_id_on_a,
     channel_id |-> domain_msg.chan_id_on_a,
     signer |-> Signer_to_string(domain_msg.signer)]

\* TryFrom<RawMsgCreateClient> for MsgCreateClient
MsgCreateClient_try_from(raw) ==
    IF ~is_some(raw.client_state) THEN ResErr("MissingRawClientState")
    ELSE IF ~is_some(raw.consensus_state) THEN ResErr("MissingRawConsensusState")
    ELSE ResOk([signer |-> Signer_from(raw.signer),
                client_state |-> raw.client_state[1],
                consensus_state |-> raw.consensus_state[1]])
\* From<MsgCreateClient> for RawMsgCreateClient
RawMsgCreateClient_from(ics_msg) ==
    [signer |-> Signer_to_string(ics_msg.signer),
     client_state |-> Some(ics_msg.client_state),
     consensus_state |-> Some(ics_msg.consensus_state)]

(***************************************************************************)
(* SpecMsg: a raw message is converted to its domain type, the domain      *)
(* message back to raw, and the raw message to the domain type again.      *)
(***************************************************************************)
\* any non-empty proof, as get_dummy_proof
DummyProof == <<1, 2>>
PreviousConnectionIds == { <<>>, <<"c", "o", "n", "n", "e", "c", "t", "i", "o", "n", "-", "0">>, <<"n", "o", "t", "/", "a", "n", "/", "i", "d">> }

\* the raw messages the conversions are run on: the messages of the test
\* utilities and their variations with a field absent, empty or invalid
RawMsgs ==
    LET DummySigner == <<"c", "o", "s", "m", "o", "s", "1", "s", "i", "g", "n", "e", "r">>
        AnyClientState == [value |-> <<10, 20>>, type_url |-> <<"/", "i", "b", "c", ".", "m", "o", "c", "k", ".", "C", "l", "i", "e", "n", "t", "S", "t", "a", "t", "e">>]
        AnyConsensusState == [value |-> <<30>>, type_url |-> <<"/", "i", "b", "c", ".", "m", "o", "c", "k", ".", "C", "o", "n", "s", "e", "n", "s", "u", "s", "S", "t", "a", "t", "e">>]
        LongId == [i \in 1..129 |-> "a"]
        RawClientIds == { <<"0", "7", "-", "t", "e", "n", "d", "e", "r", "m", "i", "n", "t", "-", "0">>, <<"c", "l", "i", "e", "n", "t">> }
        RawCounterparties ==
            { OptNone,
              Some(RawCounterparty(<<"0", "7", "-", "t", "e", "n", "d", "e", "r", "m", "i", "n", "t", "-", "0">>, <<"c", "o", "n", "n", "e", "c", "t", "i", "o", "n", "-", "0">>, Some(<<"i", "b", "c">>))),
              Some(RawCounterparty(<<"C", "l", "i", "e", "n", "t", "I", "d", "_">>, <<>>, Some(<<"i", "b", "c">>))),
              Some(RawCounterparty(<<"0", "7", "-", "t", "e", "n", "d", "e", "r", "m", "i", "n", "t", "-", "0">>, LongId, Some(<<"i", "b", "c">>))) }
        RawVersionLists ==
            { <<>>,
              <<RawVersion(<<"1">>, <<<<"O", "R", "D", "E", "R", "_", "O", "R", "D", "E", "R", "E", "D">>, <<"O", "R", "D", "E", "R", "_", "U", "N", "O", "R", "D", "E", "R", "E", "D">>>>)>>,
              <<RawVersion(<<"1">>, <<<<"O", "R", "D", "E", "R", "_", "O", "R", "D", "E", "R", "E", "D">>>>), RawVersion(<<>>, <<>>)>> }
        RawProofs == { <<>>, DummyProof }
        RawHeights == { OptNone, Some(RawHeight(1, 0)), Some(RawHeight(0, 10)) }
        RawMsgsConnectionOpenTry ==
            { [counterparty |-> counterparty, client_id |-> client_id,
               delay_period |-> delay_period, signer |-> DummySigner,
               client_state |-> raw_client_state, proof_height |-> proof_height,
               previous_connection_id |-> previous, counterparty_versions |-> versions,
               proof_init |-> proof_init, proof_client |-> proof_client,
               proof_consensus |-> proof_consensus, consensus_height |-> consensus_height,
               host_consensus_state_proof |-> host_proof] :
                client_id \in RawClientIds, previous \in PreviousConnectionIds,
                raw_client_state \in {OptNone, Some(AnyClientState)},
                counterparty \in RawCounterparties, delay_period \in {0, 1500000000},
                versions \in RawVersionLists, proof_height \in RawHeights,
                proof_init \in RawProofs, proof_client \in RawProofs, proof_consensus \in RawProofs,
                consensus_height \in RawHeights, host_proof \in RawProofs }
        RawPacket(sequence, source_channel, timeout_height, timeout_timestamp) ==
            [source_port |-> <<"t", "r", "a", "n", "s", "f", "e", "r">>, source_channel |-> source_channel, destination_port |-> <<"t", "r", "a", "n", "s", "f", "e", "r">>,
             destination_channel |-> <<"c", "h", "a", "n", "n", "e", "l", "-", "1">>, sequence |-> sequence,
             timeout_height |-> timeout_height, timeout_timestamp |-> timeout_timestamp,
             data |-> <<5>>]
        RawPackets ==
            { OptNone,
              Some(RawPacket(1, <<"c", "h", "a", "n", "n", "e", "l", "-", "0">>, Some(RawHeight(0, 20)), 0)),
              Some(RawPacket(1, <<"c", "h", "a", "n", "n", "e", "l", "-", "0">>, OptNone, 7)),
              Some(RawPacket(2, <<"c", "h", "a", "n", "n", "e", "l", "-", "0">>, Some(RawHeight(0, 20)), 7)),
              Some(RawPacket(0, <<"c", "h", "a", "n", "n", "e", "l", "-", "0">>, Some(RawHeight(0, 20)), 0)),
              Some(RawPacket(1, <<"c", "h", "s", "h", "o", "r", "t">>, Some(RawHeight(0, 20)), 0)),
              Some(RawPacket(1, <<"c", "h", "a", "n", "n", "e", "l", "-", "0">>, Some(RawHeight(1, 0)), 7)),
              Some(RawPacket(1, <<"c", "h", "a", "n", "n", "e", "l", "-", "0">>, OptNone, 0)) }
        RawMsgsTimeout ==
            { [signer |-> signer, proof_height |-> height, packet |-> packet,
               next_sequence_recv |-> next_sequence_recv, proof_unreceived |-> proof] :
                packet \in RawPackets, proof \in RawProofs, height \in RawHeights,
                next_sequence_recv \in 0..2, signer \in {<<>>, DummySigner} }
        RawMsgsChannelCloseInit ==
            { [port_id |-> port_id, channel_id |-> channel_id, signer |-> signer] :
                port_id \in { <<"t", "r", "a", "n", "s", "f", "e", "r">>, <<"p", "3", "4">>, <<"p">>, LongId, <<"a", "/", "b">> },
                channel_id \in { <<"c", "h", "a", "n", "n", "e", "l", "-", "0">>,
                                 <<"c", "h", "a", "n", "n", "e", "l", "-", "3", "4">>,
                                 <<"c", "h", "s", "h", "o", "r", "t">>,
                                 <<"c", "h", "a", "n", "s", "h", "o", "r", "t">>,
                                 <<"c", "h", "a", "n", "n", "e", "l", "-">>,
                                 <<"c", "h", "a", "n", "n", "e", "l", "-">> \o U64_MAX_DIGITS,
                                 <<"c", "h", "a", "n", "n", "e", "l", "-">> \o
                                     [U64_MAX_DIGITS EXCEPT ![20] = "6"],
                                 [i \in 1..65 |-> IF i <= 8 THEN <<"c", "h", "a", "n", "n", "e", "l", "-">>[i] ELSE "1"] },
                signer \in {<<>>, DummySigner} }
        RawMsgsCreateClient ==
            { [signer |-> signer, client_state |-> raw_client_state,
               consensus_state |-> raw_consensus_state] :
                raw_client_state \in {OptNone, Some(AnyClientState), Some(AnyConsensusState)},
                raw_consensus_state \in {OptNone, Some(AnyConsensusState)},
                signer \in {<<>>, DummySigner} }
        TaggedRaw(type, raws) == { [raw |-> raw, type |-> type] : raw \in raws }
    IN  TaggedRaw("MsgConnectionOpenTry", RawMsgsConnectionOpenTry) \cup
        TaggedRaw("MsgTimeout", RawMsgsTimeout) \cup
        TaggedRaw("MsgChannelCloseInit", RawMsgsChannelCloseInit) \cup
        TaggedRaw("MsgCreateClient", RawMsgsCreateClient)

InitMsg ==
    /\ HostIdle
    /\ pc = "start"
    /\ delay_period_time = ZERO_DURATION
    /\ max_time_per_block = ZERO_DURATION
    /\ block_delay = BigZero
    /\ input \in RawMsgs
    /\ output = <<>>

\* Msg::try_from(raw), of a raw message as received or as converted back
TryFromRaw(type, res) ==
    /\ pc \in {"start", "raw_back"}
    /\ input.type = type
    /\ output' = res
    /\ pc' = IF pc = "start" THEN "parsed" ELSE "parsed_back"
    /\ UNCHANGED input
    /\ CoinFrame

\* Raw::from(msg), of a message that was parsed
FromDomain(type, raw) ==
    /\ pc = "parsed"
    /\ input.type = type
    /\ is_ok(output)
    /\ input' = [raw |-> raw, type |-> type]
    /\ pc' = "raw_back"
    /\ UNCHANGED output
    /\ CoinFrame

ConnOpenTryFromRaw == TryFromRaw("MsgConnectionOpenTry", MsgConnectionOpenTry_try_from(input.raw))
ConnOpenTryToRaw == FromDomain("MsgConnectionOpenTry", RawMsgConnectionOpenTry_from(unwrap(output)))
TimeoutFromRaw == TryFromRaw("MsgTimeout", MsgTimeout_try_from(input.raw))
TimeoutToRaw == FromDomain("MsgTimeout", RawMsgTimeout_from(unwrap(output)))
ChanCloseInitFromRaw == TryFromRaw("MsgChannelCloseInit", MsgChannelCloseInit_try_from(input.raw))
ChanCloseInitToRaw == FromDomain("MsgChannelCloseInit", RawMsgChannelCloseInit_from(unwrap(output)))
CreateClientFromRaw == TryFromRaw("MsgCreateClient", MsgCreateClient_try_from(input.raw))
CreateClientToRaw == FromDomain("MsgCreateClient", RawMsgCreateClient_from(unwrap(output)))

NextMsg ==
    \/ ConnOpenTryFromRaw \/ ConnOpenTryToRaw
    \/ TimeoutFromRaw \/ TimeoutToRaw
    \/ ChanCloseInitFromRaw \/ ChanCloseInitToRaw
    \/ CreateClientFromRaw \/ CreateClientToRaw

SpecMsg == InitMsg /\ [][NextMsg]_vars

C17_EmptyVersions ==
    (pc = "parsed" /\ input.type = "MsgConnectionOpenTry"
        /\ input.raw.counterparty_versions = <<>>)
    => output = ResErr("EmptyVersions")
C17_Witness ==
    /\ pc = "parsed"
    /\ input.type = "MsgConnectionOpenTry"
    /\ input.raw.counterparty_versions = <<>>
    /\ input.raw.client_id = <<"c", "l", "i", "e", "n", "t">>
    /\ input.raw.counterparty = OptNone
    /\ input.raw.proof_init = <<>>
    /\ output = ResErr("EmptyVersions")

\* C18: on an otherwise valid raw message a proof_height that is absent or
\* has revision_height 0 gives MissingProofHeight, a consensus_height that is
\* absent or has revision_height 0 gives MissingConsensusHeight, and no
\* accepted message has a height with revision_height 0
C18_HeightsRequired ==
    (pc = "parsed" /\ input.type = "MsgConnectionOpenTry") =>
        LET raw == input.raw
            BadHeight(raw_opt) == raw_opt = OptNone \/ raw_opt[1].revision_height = 0
            ValidUpToProofs ==
                /\ raw.counterparty_versions # <<>>
                /\ \A i \in 1..Len(raw.counterparty_versions) :
                      is_ok(Version_try_from(raw.counterparty_versions[i]))
                /\ is_ok(ClientId_parse(raw.client_id))
                /\ is_some(raw.client_state)
                /\ is_some(raw.counterparty)
                /\ is_ok(Counterparty_try_from(raw.counterparty[1]))
            proofs_valid == raw.proof_init # <<>> /\ raw.proof_client # <<>>
                            /\ raw.proof_consensus # <<>>
        IN  /\ (ValidUpToProofs /\ proofs_valid /\ BadHeight(raw.proof_height)
                  /\ ~BadHeight(raw.consensus_height))
               => output = ResErr("MissingProofHeight")
            /\ (ValidUpToProofs /\ proofs_valid /\ ~BadHeight(raw.proof_height)
                  /\ BadHeight(raw.consensus_height))
               => output = ResErr("MissingConsensusHeight")
            /\ is_ok(output) =>
                  /\ ~BadHeight(raw.proof_height) /\ ~BadHeight(raw.consensus_height)
                  /\ unwrap(output).proofs_height_on_a.revision_height > 0
                  /\ unwrap(output).consensus_height_of_b_on_a.revision_height > 0
C18_Witness ==
    /\ pc = "parsed"
    /\ input.type = "MsgConnectionOpenTry"
    /\ input.raw.proof_height = Some(RawHeight(0, 10))
    /\ input.raw.consensus_height = Some(RawHeight(1, 0))
    /\ output = ResErr("MissingConsensusHeight")

\* C19: with valid versions, client id, client state and counterparty, an
\* empty proof_init, proof_client or proof_consensus gives InvalidProof
C19_EmptyProof ==
    (pc = "parsed" /\ input.type = "MsgConnectionOpenTry") =>
        LET raw == input.raw
            ValidUpToProofs ==
                /\ raw.counterparty_versions # <<>>
                /\ \A i \in 1..Len(raw.counterparty_versions) :
                      is_ok(Version_try_from(raw.counterparty_versions[i]))
                /\ is_ok(ClientId_parse(raw.client_id))
                /\ is_some(raw.client_state)
                /\ is_some(raw.counterparty)
                /\ is_ok(Counterparty_try_from(raw.counterparty[1]))
        IN  (ValidUpToProofs
               /\ (raw.proof_init = <<>> \/ raw.proof_client = <<>>
                     \/ raw.proof_consensus = <<>>))
            => output = ResErr("InvalidProof")
C19_Witness ==
    /\ pc = "parsed"
    /\ input.type = "MsgConnectionOpenTry"
    /\ input.raw.proof_init = DummyProof
    /\ input.raw.proof_client = DummyProof
    /\ input.raw.proof_consensus = <<>>
    /\ input.raw.proof_height = OptNone
    /\ output = ResErr("InvalidProof")

\* C20: two raw messages that differ only in previous_connection_id are both
\* accepted or both rejected with the same error, the parsed messages agree on
\* every other field, and each converts back to its own previous_connection_id
C20_PreviousConnectionIdInert ==
    (pc = "parsed" /\ input.type = "MsgConnectionOpenTry") =>
        \A previous \in PreviousConnectionIds :
            LET other == MsgConnectionOpenTry_try_from(
                             [input.raw EXCEPT !.previous_connection_id = previous])
            IN  /\ other.kind = output.kind
                /\ is_ok(output) =>
                      /\ [unwrap(other) EXCEPT !.previous_connection_id =
                              unwrap(output).previous_connection_id] = unwrap(output)
                      /\ RawMsgConnectionOpenTry_from(unwrap(other)).previous_connection_id
                            = previous
                      /\ RawMsgConnectionOpenTry_from(unwrap(output)).previous_connection_id
                            = input.raw.previous_connection_id
C20_Witness ==
    /\ pc = "parsed"
    /\ input.type = "MsgConnectionOpenTry"
    /\ input.raw.previous_connection_id = <<"n", "o", "t", "/", "a", "n", "/", "i", "d">>
    /\ is_ok(output)
    /\ unwrap(output).previous_connection_id = <<"n", "o", "t", "/", "a", "n", "/", "i", "d">>

\* ---------------------------------------------------------------------------
\* Tendermint ConsensusState and its protobuf forms
\* (clients/ics07_tendermint/consensus_state.rs)
\* ---------------------------------------------------------------------------

TENDERMINT_CONSENSUS_STATE_TYPE_URL == "/ibc.lightclients.tendermint.v1.ConsensusState"

\* an i64 number of seconds, held as hi * 10^9 + lo with 0 <= lo < 10^9
SecondsLimb == 1000000000
I64(hi, lo) == [hi |-> hi, lo |-> lo]
\* tendermint::Time: a date and time of day in UTC between 0001-01-01 and
\* 9999-12-31, held as the day since 0001-01-01, the second of that day and
\* the nanosecond of that second
SecondsPerDay == 86400
UnixEpochDay == 719162
MaxDay == 3652058
Time(day, second, nanosecond) == [day |-> day, second |-> second, nanosecond |-> nanosecond]

\* tpb::Timestamp::from(time): the seconds since the Unix epoch, rounded
\* down, and the nanoseconds above them.  (day - UnixEpochDay) * 86400 is
\* computed as ((day - UnixEpochDay) * 432) * 200 to stay within the limbs.
Timestamp_from_Time(time) ==
    LET a  == (time.day - UnixEpochDay) * 432
        hi == a \div 5000000
        lo == (a % 5000000) * 200 + time.second
    IN  [nanos |-> time.nanosecond,
         seconds |-> I64(hi + lo \div SecondsLimb, lo % SecondsLimb)]

\* Time::try_from(tpb::Timestamp): nanos must be below a second (a negative
\* i32 is a large u32) and the instant must lie in the years 1 to 9999
Time_try_from_Timestamp(timestamp) ==
    LET hi == timestamp.seconds.hi
        \* 10^9 = 11574 * 86400 + 6400
        r   == hi * 6400 + timestamp.seconds.lo
        day == hi * 11574 + r \div SecondsPerDay + UnixEpochDay
    IN  IF timestamp.nanos < 0 \/ timestamp.nanos > 999999999
        THEN ResErr("TimestampNanosOutOfRange")
        ELSE IF day < 0 \/ day > MaxDay THEN ResErr("DateOutOfRange")
        ELSE ResOk(Time(day, r % SecondsPerDay, timestamp.nanos))

\* tendermint::Hash: None, or a SHA-256 digest of 32 bytes
SHA256_HASH_SIZE == 32
Hash_None == [bytes |-> <<>>, algorithm |-> "None"]
Hash_Sha256(bytes) == [bytes |-> bytes, algorithm |-> "Sha256"]
\* hash.as_bytes(): the digest, nothing for None
Hash_as_bytes(hash) == IF hash.algorithm = "None" THEN <<>> ELSE hash.bytes
\* Hash::from_bytes(Algorithm::Sha256, bytes): no bytes are None, 32 bytes
\* are a digest, any other length is an error
Hash_from_bytes(bytes) ==
    IF bytes = <<>> THEN ResOk(Hash_None)
    ELSE IF Len(bytes) = SHA256_HASH_SIZE THEN ResOk(Hash_Sha256(bytes))
    ELSE ResErr("InvalidHashSize")

ConsensusState(timestamp, root, next_validators_hash) ==
    [root |-> root, timestamp |-> timestamp, next_validators_hash |-> next_validators_hash]

\* TryFrom<RawConsensusState> for ConsensusState
ConsensusState_try_from(raw) ==
    IF ~is_some(raw.root) THEN ResErr("InvalidRawClientState")
    ELSE IF ~is_some(raw.timestamp) THEN ResErr("InvalidRawClientState")
    ELSE LET timestamp == Time_try_from_Timestamp(raw.timestamp[1])
             next_validators_hash == Hash_from_bytes(raw.next_validators_hash)
         IN  IF ~is_ok(timestamp) THEN ResErr("InvalidRawClientState")
             ELSE IF ~is_ok(next_validators_hash) THEN ResErr("InvalidRawClientState")
             ELSE ResOk(ConsensusState(unwrap(timestamp), raw.root[1].hash,
                                       unwrap(next_validators_hash)))

\* the same conversion with the root of no bytes left out
RawConsensusState_from_EmptyRootAbsent(value) ==
    [root |-> IF value.root = <<>> THEN OptNone ELSE Some([hash |-> value.root]),
     timestamp |-> Some(Timestamp_from_Time(value.timestamp)),
     next_validators_hash |-> Hash_as_bytes(value.next_validators_hash)]
\* From<ConsensusState> for RawConsensusState
RawConsensusState_from(value) ==
    [root |-> Some([hash |-> value.root]),
     timestamp |-> Some(Timestamp_from_Time(value.timestamp)),
     next_validators_hash |-> Hash_as_bytes(value.next_validators_hash)]

\* the protobuf wire form of a message: its fields by number, a field of
\* the default value (0, no bytes, no message) left out
WireField(tag, value) == [value |-> value, tag |-> tag]
wire_has(buf, tag) == \E i \in 1..Len(buf) : buf[i].tag = tag
\* the last occurrence of a field, or the default
wire_get(buf, tag, default) ==
    LET fields == SelectSeq(buf, LAMBDA field : field.tag = tag)
    IN  IF fields = <<>> THEN default ELSE fields[Len(fields)].value

\* prost's encoding of ibc.lightclients.tendermint.v1.ConsensusState
\* { Timestamp timestamp = 1; MerkleRoot root = 2; bytes next_validators_hash = 3; }
\* with google.protobuf.Timestamp { int64 seconds = 1; int32 nanos = 2; } and
\* ibc.core.commitment.v1.MerkleRoot { bytes hash = 1; }
RawConsensusState_encode(raw) ==
    LET Timestamp_encode(timestamp) ==
            (IF timestamp.seconds # I64(0, 0)
             THEN << WireField(1, timestamp.seconds) >> ELSE <<>>) \o
            (IF timestamp.nanos # 0 THEN << WireField(2, timestamp.nanos) >> ELSE <<>>)
        MerkleRoot_encode(root) ==
            IF root.hash # <<>> THEN << WireField(1, root.hash) >> ELSE <<>>
    IN  (IF is_some(raw.timestamp)
         THEN << WireField(1, Timestamp_encode(raw.timestamp[1])) >> ELSE <<>>) \o
        (IF is_some(raw.root)
         THEN << WireField(2, MerkleRoot_encode(raw.root[1])) >> ELSE <<>>) \o
        (IF raw.next_validators_hash # <<>>
         THEN << WireField(3, raw.next_validators_hash) >> ELSE <<>>)
\* and its decoding
RawConsensusState_decode(buf) ==
    LET Timestamp_decode(field) ==
            [nanos |-> wire_get(field, 2, 0), seconds |-> wire_get(field, 1, I64(0, 0))]
        MerkleRoot_decode(field) == [hash |-> wire_get(field, 1, <<>>)]
    IN  [root |-> IF wire_has(buf, 2)
                  THEN Some(MerkleRoot_decode(wire_get(buf, 2, <<>>))) ELSE OptNone,
         timestamp |-> IF wire_has(buf, 1)
                       THEN Some(Timestamp_decode(wire_get(buf, 1, <<>>))) ELSE OptNone,
         next_validators_hash |-> wire_get(buf, 3, <<>>)]

ProtoAny(type_url, value) == [value |-> value, type_url |-> type_url]
\* the same conversion with the value decoded whatever the type_url is
ConsensusState_try_from_Any_IgnoreTypeUrl(raw) ==
    map_err(ConsensusState_try_from(RawConsensusState_decode(raw.value)),
            "ClientSpecific")
\* TryFrom<Any> for ConsensusState; the error of an unknown type carries
\* the type_url
ConsensusState_try_from_Any(raw) ==
    IF raw.type_url = TENDERMINT_CONSENSUS_STATE_TYPE_URL
    THEN map_err(ConsensusState_try_from(RawConsensusState_decode(raw.value)),
                 "ClientSpecific")
    ELSE [kind |-> "UnknownConsensusStateType", value |-> <<raw.type_url>>]
\* From<ConsensusState> for Any
Any_from_ConsensusState(value) ==
    ProtoAny(TENDERMINT_CONSENSUS_STATE_TYPE_URL,
             RawConsensusState_encode(RawConsensusState_from(value)))

\* ---------------------------------------------------------------------------
\* The conversions of a consensus state as a machine: a consensus state is
\* converted to its raw form or to an Any, and the result is converted back
\* ---------------------------------------------------------------------------

\* the consensus states the conversions are run on: the first and the last
\* instant a Time can hold, instants around the Unix epoch and a present one,
\* with and without root bytes and next validators hash
ConsensusStates ==
    LET Times ==
            { Time(day, second, nanosecond) :
                day \in {0, UnixEpochDay - 1, UnixEpochDay, 19675, 739000, MaxDay},
                second \in {0, 86399},
                nanosecond \in {0, 999999999} }
        Roots == { <<>>, <<1, 2>> }
        Hashes == { Hash_None, Hash_Sha256([i \in 1..SHA256_HASH_SIZE |-> 7]) }
    IN  { ConsensusState(timestamp, root, next_validators_hash) :
        timestamp \in Times, root \in Roots, next_validators_hash \in Hashes }

\* the type_urls of the Any messages that are received: the one of a
\* Tendermint consensus state, near misses of it and those of other messages
AnyTypeUrls ==
    { TENDERMINT_CONSENSUS_STATE_TYPE_URL,
      "ibc.lightclients.tendermint.v1.ConsensusState",
      "/ibc.lightclients.tendermint.v1.consensusstate",
      "/ibc.lightclients.tendermint.v1.ClientState",
      "/ibc.mock.ConsensusState",
      "" }

\* either a consensus state is to be converted, or an Any has been received
\* whose value is the encoding of a consensus state or holds no field
InitConsensus ==
    /\ HostIdle
    /\ delay_period_time = ZERO_DURATION
    /\ max_time_per_block = ZERO_DURATION
    /\ block_delay = BigZero
    /\ input \in ConsensusStates
    /\ \/ pc = "start" /\ output = <<>>
       \/ /\ pc = "received"
          /\ \E type_url \in AnyTypeUrls :
               \E value \in { RawConsensusState_encode(RawConsensusState_from(input)),
                              <<>> } :
                  output = ProtoAny(type_url, value)

\* RawConsensusState::from(consensus_state)
ConsensusStateToRaw ==
    /\ pc = "start"
    /\ output' = RawConsensusState_from(input)
    /\ pc' = "raw"
    /\ UNCHANGED input
    /\ CoinFrame

\* ConsensusState::try_from(raw)
ConsensusStateFromRaw ==
    /\ pc = "raw"
    /\ output' = ConsensusState_try_from(output)
    /\ pc' = "from_raw"
    /\ UNCHANGED input
    /\ CoinFrame

\* Any::from(consensus_state)
ConsensusStateToAny ==
    /\ pc = "start"
    /\ output' = Any_from_ConsensusState(input)
    /\ pc' = "any"
    /\ UNCHANGED input
    /\ CoinFrame

\* ConsensusState::try_from(any)
ConsensusStateFromAny ==
    /\ pc \in {"any", "received"}
    /\ output' = ConsensusState_try_from_Any(output)
    /\ pc' = IF pc = "any" THEN "from_any" ELSE "from_received"
    /\ UNCHANGED input
    /\ CoinFrame

NextConsensus ==
    \/ ConsensusStateToRaw
    \/ ConsensusStateFromRaw
    \/ ConsensusStateToAny
    \/ ConsensusStateFromAny

SpecConsensus == InitConsensus /\ [][NextConsensus]_vars

\* C16: a Tendermint ConsensusState converted to its raw form and back, and
\* to an Any and back, is the consensus state it was, and the Any carries the
\* type_url /ibc.lightclients.tendermint.v1.ConsensusState
C16_ConsensusStateRoundTrip ==
    /\ pc = "any" => output.type_url = "/ibc.lightclients.tendermint.v1.ConsensusState"
    /\ pc \in {"from_raw", "from_any"} => (is_ok(output) /\ unwrap(output) = input)
C16_Witness ==
    /\ pc = "from_any"
    /\ input = ConsensusState(Time(UnixEpochDay - 1, 86399, 999999999), <<>>, Hash_None)
    /\ is_ok(output)

\* C21: MsgTimeout::try_from gives ZeroPacketSequence for next_sequence_recv
\* 0 whatever the other fields hold; otherwise MissingPacket for no packet;
\* with a valid packet InvalidProof for an empty proof_unreceived, and with a
\* proof MissingHeight for a proof_height that is absent or of revision
\* height 0; a message with a valid packet and none of these defects is
\* accepted whatever its signer, and a message with any of them is rejected
C21_TimeoutRejections ==
    (pc = "parsed" /\ input.type = "MsgTimeout") =>
        LET raw == input.raw
            zero_sequence == raw.next_sequence_recv = 0
            no_packet == raw.packet = OptNone
            packet_valid == is_some(raw.packet) /\ is_ok(Packet_try_from(raw.packet[1]))
            no_proof == raw.proof_unreceived = <<>>
            no_height == raw.proof_height = OptNone \/ raw.proof_height[1].revision_height = 0
        IN  /\ zero_sequence => output = ResErr("ZeroPacketSequence")
            /\ (~zero_sequence /\ no_packet) => output = ResErr("MissingPacket")
            /\ (~zero_sequence /\ packet_valid /\ no_proof) => output = ResErr("InvalidProof")
            /\ (~zero_sequence /\ packet_valid /\ ~no_proof /\ no_height)
                  => output = ResErr("MissingHeight")
            /\ (zero_sequence \/ no_packet \/ no_proof \/ no_height) => ~is_ok(output)
            /\ (~zero_sequence /\ packet_valid /\ ~no_proof /\ ~no_height)
                  => (is_ok(output) /\ Signer_to_string(unwrap(output).signer) = raw.signer)
C21_Witness ==
    /\ pc = "parsed"
    /\ input.type = "MsgTimeout"
    /\ input.raw.next_sequence_recv = 0
    /\ input.raw.packet = OptNone
    /\ input.raw.proof_unreceived = <<>>
    /\ input.raw.proof_height = OptNone
    /\ output = ResErr("ZeroPacketSequence")

\* C22: MsgChannelCloseInit::try_from succeeds exactly when port_id is 2 to
\* 128 characters of the identifier alphabet and channel_id is channel-{u64};
\* a port id of 1 or of more than 128 characters and a channel id shorter
\* than channel-0 or longer than channel-{u64::MAX} are rejected; the signer
\* is taken as it comes and has no part in the outcome
C22_ChanCloseInitParse ==
    (pc = "parsed" /\ input.type = "MsgChannelCloseInit") =>
        LET raw == input.raw
            port_valid == /\ Len(raw.port_id) \in 2..128
                          /\ \A i \in 1..Len(raw.port_id) : raw.port_id[i] \in IdChars
            channel_valid == is_ok(ChannelId_parse(raw.channel_id))
        IN  /\ is_ok(output) <=> (port_valid /\ channel_valid)
            /\ (Len(raw.port_id) < 2 \/ Len(raw.port_id) > 128) => ~is_ok(output)
            /\ (Len(raw.channel_id) < 9 \/ Len(raw.channel_id) > 28) => ~is_ok(output)
            /\ is_ok(output) => Signer_to_string(unwrap(output).signer) = raw.signer
            /\ \A signer \in {<<>>, raw.signer} :
                  MsgChannelCloseInit_try_from([raw EXCEPT !.signer = signer]).kind
                      = output.kind
C22_Witness ==
    /\ pc = "parsed"
    /\ input.type = "MsgChannelCloseInit"
    /\ input.raw.port_id = <<"p", "3", "4">>
    /\ input.raw.channel_id = <<"c", "h", "a", "n", "s", "h", "o", "r", "t">>
    /\ input.raw.signer = <<>>
    /\ ~is_ok(output)

(***************************************************************************)
(* Properties of the proof check and of the order of the steps of          *)
(* chan_close_confirm.                                                     *)
(***************************************************************************)
\* C23: validation reaches Ok (up to the module callback) only with a proof
\* of membership, against the root of the consensus state stored at
\* proof_height_on_a and under the connection's counterparty prefix, of the
\* channel end [Closed, B's ordering and version, counterparty
\* (msg.port_id_on_b, msg.chan_id_on_b), hops = the counterparty connection
\* id] at channelEnds/ports/{counterparty port}/channels/{counterparty
\* channel}; a proof that is verified and fails gives VerifyChannelFailed
C23_ProofOfClosedEndOnA ==
    LET proof == last.msg.proof_chan_end_on_a
        cons_path == <<LastConnEnd.client_id, last.msg.proof_height_on_a>>
        expected ==
            [state |-> "Closed",
             ordering |-> LastChanEnd.ordering,
             version |-> LastChanEnd.version,
             counterparty |-> [port_id |-> last.msg.port_id_on_b,
                               channel_id |-> last.msg.chan_id_on_b],
             connection_hops |-> <<LastConnEnd.counterparty.connection_id>>]
        proves ==
            /\ proof.root = consensus[cons_path].root
            /\ proof.prefix = LastConnEnd.counterparty.prefix
            /\ proof.path = <<"channelEnds", "ports", LastChanEnd.counterparty.port_id,
                              "channels", LastChanEnd.counterparty.channel_id>>
            /\ proof.value = expected
    IN last.op = "validate" =>
          /\ last.res = Ok =>
                (HasLastClient /\ cons_path \in DOMAIN consensus /\ last.verified /\ proves)
          /\ last.verified =>
                /\ HasLastClient /\ cons_path \in DOMAIN consensus
                /\ (last.res = Err("VerifyChannelFailed", "")) <=> ~proves

C23_Witness ==
    /\ last.op = "validate" /\ last.verified
    /\ last.res = Err("VerifyChannelFailed", "")
    /\ last.msg.proof_chan_end_on_a.value.state = "Open"
    /\ LastChanEnd.ordering = "Ordered"

\* C24: validation reaches Ok only when the connection end named by the
\* first connection hop of B's channel end exists and is Open; with a
\* connection in Init or TryOpen validation fails, verifies no proof and
\* gives the verdict it gives on a host that stores no client and no
\* consensus state
C24_ConnectionMustBeOpen ==
    last.op = "validate" =>
        /\ last.res = Ok => (HasLastConnEnd /\ LastConnEnd.state = "Open")
        /\ (HasLastConnEnd /\ LastConnEnd.state \in {"Init", "TryOpen"}) =>
              /\ last.res # Ok
              /\ ~last.verified
              /\ last.calls = <<>>
              /\ last.res =
                   chan_close_confirm_validate(
                       [Ctx EXCEPT !.clients = EmptyMap, !.consensus = EmptyMap],
                       last.module, last.msg).res

C24_Witness ==
    /\ last.op = "validate" /\ HasLastClient
    /\ LastChanEnd.state = "Open"
    /\ LastConnEnd.state = "TryOpen"
    /\ LastClient.status = "Active"
    /\ last.msg \in DirectMsgs
    /\ last.res = Err("ConnectionInvalidState", "TryOpen")

\* C25: an execute that follows a successful validate of the same message
\* on the same host state does not fail with the internal error about a
\* missing counterparty channel id: it ends Ok, with the module callback's
\* error or with a host error; validation rejects every channel end without
\* a counterparty channel id, with MissingCounterparty when the checks
\* before that one pass
C25_NoInternalErrorAfterValidate ==
    /\ (last.op = "execute" /\ last.prevalidated) =>
          \/ last.res = Ok
          \/ last.res.kind \in {"ModuleError", "HostError"}
    /\ (/\ last.op = "validate"
        /\ HasLastChanEnd
        /\ LastChanEnd.counterparty.channel_id = None) =>
          /\ last.res # Ok
          /\ last.calls = <<>>
          /\ (/\ validate_message_signer(last.msg.signer)
              /\ LastChanEnd.state # "Closed"
              /\ HasLastClient
              /\ LastConnEnd.state = "Open"
              /\ LastClient.status = "Active"
              /\ last.msg.proof_height_on_a <= LastClient.latest_height
              /\ <<LastConnEnd.client_id, last.msg.proof_height_on_a>>
                     \in DOMAIN consensus)
             => last.res = Err("MissingCounterparty", "")

C25_Witness ==
    /\ last.op = "execute" /\ last.prevalidated
    /\ last.res = Err("HostError", "log_message")
    /\ LastChanEnd.state = "Closed"
    /\ LastChanEnd.counterparty.channel_id # None

\* C26: when the module's on_chan_close_confirm_execute callback returns an
\* error, execute returns that error and the host is as it was: no channel
\* end is stored, no event is emitted and no message is logged
C26_CallbackErrorBeforeWrites ==
    [][(last'.op = "execute" /\ last'.module.execute_err) =>
          /\ last'.res = Err("ModuleError", "")
          /\ last'.calls = <<"on_chan_close_confirm_execute">>
          /\ channels' = channels
          /\ events' = events
          /\ log' = log
          /\ UNCHANGED hostVars]_vars

C26_Witness ==
    /\ last.op = "execute" /\ last.module.execute_err
    /\ last.res = Err("ModuleError", "")
    /\ last.prevalidated
    /\ LastChanEnd.state = "Open"
    /\ events = <<>> /\ log = <<>>

\* C27: a successful execute changes, of the stored channel ends, only the
\* state field of the end at (port_id_on_b, chan_id_on_b); its ordering,
\* counterparty, connection hops and version, every other channel end, the
\* connection ends, the client states and the consensus states are what
\* they were
C27_OnlyStateFieldChanges ==
    [][(last'.op = "execute" /\ last'.res = Ok) =>
          LET path == ChannelEndPath(last'.msg.port_id_on_b, last'.msg.chan_id_on_b) IN
          /\ path \in DOMAIN channels
          /\ DOMAIN channels' = DOMAIN channels
          /\ \A p \in DOMAIN channels : p # path => channels'[p] = channels[p]
          /\ channels'[path].ordering = channels[path].ordering
          /\ channels'[path].counterparty = channels[path].counterparty
          /\ channels'[path].connection_hops = channels[path].connection_hops
          /\ channels'[path].version = channels[path].version
          /\ DOMAIN channels'[path] = DOMAIN channels[path]
          /\ connections' = connections
          /\ clients' = clients
          /\ consensus' = consensus]_vars

C27_Witness ==
    /\ last.op = "execute" /\ last.res = Ok
    /\ last.msg.chan_id_on_b = "channel-0"
    /\ LastChanEnd = ChannelEnd("Closed", OrderOf("channel-0"), PortIdB,
                                ChanIdOnA("channel-0"), <<ConnIdB>>, VersionB)
    /\ channels[ChannelEndPath(PortIdB, "channel-1")].state = "Open"

\* C28: decoding an Any as a Tendermint ConsensusState succeeds only if its
\* type_url is exactly /ibc.lightclients.tendermint.v1.ConsensusState; with
\* any other type_url the result is UnknownConsensusStateType carrying that
\* type_url, whatever the value bytes are, also when they would not decode
\* to a consensus state
C28_UnknownTypeUrlRejected ==
    [][(pc \in {"any", "received"} /\ pc' \in {"from_any", "from_received"}) =>
          /\ is_ok(output') =>
                output.type_url = "/ibc.lightclients.tendermint.v1.ConsensusState"
          /\ output.type_url # "/ibc.lightclients.tendermint.v1.ConsensusState" =>
                /\ output'.kind = "UnknownConsensusStateType"
                /\ output'.value = <<output.type_url>>]_vars

C28_Witness ==
    /\ pc = "from_received"
    /\ output.kind = "UnknownConsensusStateType"
    /\ output.value = <<"/ibc.lightclients.tendermint.v1.consensusstate">>

(***************************************************************************)
(* Borsh serialization of MsgConnectionOpenTry (conn_open_try.rs:62-152).  *)
(* The delay period is written as a u64 number of nanoseconds; here the    *)
(* seconds of a Duration are an unsigned integer of arbitrary size, as a   *)
(* Duration holds up to u64::MAX seconds.                                  *)
(***************************************************************************)
\* Duration::as_nanos: a u128
Duration_as_nanos_u128(duration) ==
    BigAdd(BigMul(duration.secs, BigFromInt(NANOS_PER_SEC)), BigFromInt(duration.nanos))

\* Duration::from_nanos of a u64
Duration_from_nanos_u64(nanos) ==
    LET qr == BigDivMod(nanos, BigFromInt(NANOS_PER_SEC))
    IN  Duration(qr.quot, Limb(qr.rem, 1) + Base * Limb(qr.rem, 2))

\* u64::try_from(u128)
u64_try_from(n) ==
    IF BigCmp(n, U64Max) > 0 THEN ResErr("TryFromIntError") ELSE ResOk(n)

RECURSIVE le_bytes(_, _)
\* the k low bytes of n, the least significant first
le_bytes(n, k) ==
    IF k = 0 THEN <<>>
    ELSE LET qr == BigDivMod(n, BigFromInt(256))
         IN  <<Limb(qr.rem, 1)>> \o le_bytes(qr.quot, k - 1)

RECURSIVE from_le_bytes(_)
from_le_bytes(bytes) ==
    IF bytes = <<>> THEN BigZero
    ELSE BigAdd(BigFromInt(Head(bytes)), BigMulSmall(from_le_bytes(Tail(bytes)), 256))

\* the fields that InnerMsgConnectionOpenTry takes over as they are
inner_fields(msg) ==
    [counterparty |-> msg.counterparty,
     signer |-> msg.signer,
     client_id_on_b |-> msg.client_id_on_b,
     previous_connection_id |-> msg.previous_connection_id,
     client_state_of_b_on_a |-> msg.client_state_of_b_on_a,
     versions_on_a |-> msg.versions_on_a,
     proof_conn_end_on_a |-> msg.proof_conn_end_on_a,
     proof_client_state_of_b_on_a |-> msg.proof_client_state_of_b_on_a,
     proof_consensus_state_of_b_on_a |-> msg.proof_consensus_state_of_b_on_a,
     proofs_height_on_a |-> msg.proofs_height_on_a,
     consensus_height_of_b_on_a |-> msg.consensus_height_of_b_on_a,
     proof_consensus_state_of_b |-> msg.proof_consensus_state_of_b]

\* variant of the serialization: the nanoseconds are cast with `as u64`
MsgConnectionOpenTry_borsh_serialize_Truncating(msg) ==
    ResOk([fields |-> inner_fields(msg),
           delay_period_nanos |->
               le_bytes(BigDivMod(Duration_as_nanos_u128(msg.delay_period),
                                  BigShl(BigOne, 64)).rem, 8)])

\* BorshSerialize for MsgConnectionOpenTry: the serialized inner message,
\* its delay_period_nanos as the eight bytes Borsh writes for a u64
MsgConnectionOpenTry_borsh_serialize(msg) ==
    LET delay_period_nanos == u64_try_from(Duration_as_nanos_u128(msg.delay_period))
    IN  IF ~is_ok(delay_period_nanos) THEN ResErr("Duration too long")
        ELSE ResOk([fields |-> inner_fields(msg),
                    delay_period_nanos |-> le_bytes(unwrap(delay_period_nanos), 8)])

\* BorshDeserialize for MsgConnectionOpenTry
MsgConnectionOpenTry_borsh_deserialize(serialized) ==
    LET inner == serialized.fields
    IN  ResOk([counterparty |-> inner.counterparty,
               delay_period |->
                   Duration_from_nanos_u64(from_le_bytes(serialized.delay_period_nanos)),
               signer |-> inner.signer,
               client_id_on_b |-> inner.client_id_on_b,
               previous_connection_id |-> inner.previous_connection_id,
               client_state_of_b_on_a |-> inner.client_state_of_b_on_a,
               versions_on_a |-> inner.versions_on_a,
               proof_conn_end_on_a |-> inner.proof_conn_end_on_a,
               proof_client_state_of_b_on_a |-> inner.proof_client_state_of_b_on_a,
               proof_consensus_state_of_b_on_a |-> inner.proof_consensus_state_of_b_on_a,
               proofs_height_on_a |-> inner.proofs_height_on_a,
               consensus_height_of_b_on_a |-> inner.consensus_height_of_b_on_a,
               proof_consensus_state_of_b |-> inner.proof_consensus_state_of_b])

\* the messages that are serialized: the message that try_from gives for the
\* dummy raw message, with and without the optional proof, and with delay
\* periods of a few nanoseconds, around u64::MAX nanoseconds and up to
\* Duration::MAX
BorshMsgs ==
    LET MaxNanos == Duration_from_nanos_u64(U64Max)
        Secs == { BigFromInt(0), BigFromInt(1), BigFromInt(34),
                  BigSub(MaxNanos.secs, BigOne), MaxNanos.secs,
                  BigAdd(MaxNanos.secs, BigOne), U64Max }
        Nanos == { 0, 1, MaxNanos.nanos - 1, MaxNanos.nanos, MaxNanos.nanos + 1,
                   NANOS_PER_SEC - 1 }
        raw == CHOOSE r \in RawMsgs :
                  /\ r.type = "MsgConnectionOpenTry"
                  /\ is_ok(MsgConnectionOpenTry_try_from(r.raw))
                  /\ r.raw.host_consensus_state_proof = DummyProof
                  /\ r.raw.previous_connection_id = <<>>
        dummy == unwrap(MsgConnectionOpenTry_try_from(raw.raw))
    IN  { [dummy EXCEPT !.delay_period = Duration(secs, nanos),
                        !.proof_consensus_state_of_b = proof] :
            secs \in Secs, nanos \in Nanos,
            proof \in {OptNone, dummy.proof_consensus_state_of_b} }

InitBorsh ==
    /\ HostIdle
    /\ pc = "start"
    /\ delay_period_time = ZERO_DURATION
    /\ max_time_per_block = ZERO_DURATION
    /\ block_delay = BigZero
    /\ input \in BorshMsgs
    /\ output = <<>>

\* borsh::to_vec(&msg)
BorshSerialize ==
    /\ pc = "start"
    /\ output' = MsgConnectionOpenTry_borsh_serialize(input)
    /\ pc' = "serialized"
    /\ UNCHANGED input
    /\ CoinFrame

\* MsgConnectionOpenTry::try_from_slice(&serialized)
BorshDeserialize ==
    /\ pc = "serialized"
    /\ is_ok(output)
    /\ output' = MsgConnectionOpenTry_borsh_deserialize(unwrap(output))
    /\ pc' = "deserialized"
    /\ UNCHANGED input
    /\ CoinFrame

NextBorsh == BorshSerialize \/ BorshDeserialize

SpecBorsh == InitBorsh /\ [][NextBorsh]_vars

\* C29: Borsh serialization of a MsgConnectionOpenTry succeeds exactly when
\* its delay_period is at most u64::MAX nanoseconds (18446744073 s and
\* 709551615 ns), u64::MAX included, and deserialization then returns the
\* message that was serialized; above u64::MAX nanoseconds serialization
\* returns an error and no value
C29_BorshRoundTrip ==
    LET max_secs == <<31241, 5893, 17>>
        fits ==
            \/ BigCmp(input.delay_period.secs, max_secs) < 0
            \/ /\ input.delay_period.secs = max_secs
               /\ input.delay_period.nanos <= 709551615
    IN  /\ pc = "serialized" =>
              /\ is_ok(output) <=> fits
              /\ ~fits => output.value = <<>>
        /\ pc = "deserialized" => (fits /\ is_ok(output) /\ unwrap(output) = input)

C29_Witness ==
    /\ pc = "deserialized"
    /\ input.delay_period = Duration(<<31241, 5893, 17>>, 709551615)
    /\ is_ok(output)

\* C30: with a max_expected_time_per_block of zero, calculate_block_delay
\* returns 0 for every delay_period
C30_ZeroBlockTimeGivesZero ==
    (/\ pc = "done"
     /\ max_time_per_block.secs = 0
     /\ max_time_per_block.nanos = 0) => block_delay = <<>>

C30_Witness ==
    /\ pc = "done"
    /\ max_time_per_block = Duration(0, 0)
    /\ delay_period_time = Duration(MaxDelaySecs, 300000000)
    /\ block_delay = <<>>

====
